---------------------------- MODULE Spec2Model ----------------------------
(***************************************************************************)
(* Scheduling primitives of MyCodeSnippets: the intrusive Sequential Queue *)
(* (intr_queue.cpp), the lock-free stack (atomic_queue.cpp), the fixed     *)
(* work-stealing pool (static_thread_pool.cpp) and the elastic pool        *)
(* (blocking_thread_pool.cpp).  Each component has its own specification   *)
(* over its own variables; the variables of the other components stay at   *)
(* their initial values.                                                   *)
(***************************************************************************)
EXTENDS Integers, Sequences, FiniteSets, TLC

VARIABLES
  \* ---- Sequential Queue harness (intr_queue.cpp) ----
  q,        \* queue objects: name -> [mHead, mTail]
  next,     \* the link field of every node (Item::next)
  held,     \* nodes the caller holds (linked in no queue as far as it knows)
  fault,    \* TRUE once a null link has been dereferenced (the process is gone)
  last,     \* the last operation: its name, arguments, contents before, result
  pushed,   \* FIFO history: nodes given to pushBack, in call order
  popped,   \* FIFO history: nodes returned by popFront(), in call order
  \* ---- lock-free stack (atomic_queue.cpp) ----
  sHead,    \* AtomicQueue::mHead
  sNext,    \* the link field of every item
  spc,      \* each producer's position in pushFront
  sOld,     \* each producer's local oldHead
  sIdx,     \* each producer's loop counter i (items pushed so far)
  batches,  \* the queues popAll returned, drained, in call order
  sFails,   \* per producer: failed CASes of its running call that found
            \* mHead changed
  sSince,   \* per producer: pushFront and popAll calls of other threads that
            \* took effect since its running call read mHead
  \* ---- fixed pool (static_thread_pool.cpp) ----
  pQ,       \* ThreadState::mQueue of every worker
  pNext,    \* TaskBase::next of every task
  pStop,    \* ThreadState::mStopRequested of every worker
  pMt,      \* ThreadState::mMt of every worker: the thread holding it
  pNotified,\* a notify on ThreadState::mCv reached the worker waiting on it
  wpc,      \* each worker thread's position in run()
  wIdx,     \* each worker's local queueIdx
  wTask,    \* each worker's local task
  nThreads, \* mThreads.size()
  mNextThread, \* the round-robin counter
  cnt,      \* the shared counter the tasks increment
  cpc,      \* the caller's position
  cWhy,     \* why the caller runs requestStop: "explicit", "dtor", "ctor"
  cStart,   \* enqueue's local startIdx
  cI,       \* the caller's loop index (enqueue, requestStop, join)
  enq,      \* tasks 1..enq have been passed to enqueue
  ran,      \* how many times each task's run was invoked
  stopBegun,\* a requestStop call has begun
  lateEnq,  \* tasks whose enqueue began after a requestStop had begun
  atStop,   \* tasks linked in a queue when the first requestStop began
  spurious, \* spurious wake-ups of condition variables so far
  wTried,   \* per worker: the tryPop calls of its current iteration of
            \* run()'s outer loop, in order: the queue and what was returned
  npc,      \* per worker: where it is in an enqueue its running task calls
  nStart,   \* per worker: startIdx of that enqueue
  nI,       \* per worker: i of that enqueue's loop
  nTask,    \* per worker: the task that enqueue was passed
  nCount,   \* enqueue calls made by running tasks so far
  \* ---- elastic pool (blocking_thread_pool.cpp) ----
  eQ,          \* mQueue
  eNext,       \* TaskBase::next of every task
  mQueueSize,  \* the pending-task counter
  mIdleCount,  \* the idle-worker counter
  mThreadCount,\* the live-worker counter
  eMt,         \* mQueueMt: the thread holding it
  epc,         \* each worker thread's position in loop(); "none": no thread
  eTask,       \* each worker's local task
  eR,          \* each worker's local r, the result of wait_for
  eNotified,   \* a notify on mQueueCv reached the worker waiting on it
  ecpc,        \* the caller's position in enqueue
  eEnq,        \* tasks 1..eEnq have been passed to enqueue
  eRan,        \* how many times each task's run was invoked
  eGrow,       \* the last growth check: the counters before and after it
  eSpurious,   \* spurious returns of wait_for so far
  enpc,        \* per worker: where it is in an enqueue its running task calls
  enTask,      \* per worker: the task that enqueue was passed
  enCount,     \* enqueue calls made by running tasks so far
  \* ---- FreeList (freelist.cpp) ----
  len_,        \* FreeList::len_
  data_,       \* FreeList::data_: the Items, position 0 first
  look_up_,    \* FreeList::look_up_: index -> position in data_
  fLive,       \* the indices allocated and not deallocated, with the value
               \* each was allocated for
  fLast,       \* the last call: its name, argument and result
  \* ---- BoundedQueue (part_003) ----
  content_,    \* BoundedQueue::content_, front first
  bStop,       \* stop has been requested on the callers' stop_token
  bpc,         \* per thread: the call it is in
  bItem,       \* per thread: the item its Push was passed
  bOps,        \* calls begun so far
  bPopEmpty,   \* a Pop has run front() and pop_front() on an empty content_
  bCorrupt,    \* content_ is in the unspecified state that leaves it in
  \* ---- IntrPtr (part_000) ----
  iData,       \* per IntrPtr object: mData
  iLive,       \* per IntrPtr object: it has been constructed and not destroyed
  iRc,         \* per control block: mRefCount
  iAlive,      \* per control block: it has not been deleted
  iDeletes,    \* per control block: the delete expressions run on it
  ipc,         \* per thread: where it is in the operation it is running
  iSlot,       \* per thread: the object its operation constructs or assigns to
  iVal,        \* per thread: mData of the temporary its operation holds
  iFreed       \* a freed control block has been read or written

qvars == <<q, next, held, fault, last, pushed, popped>>
svars == <<sHead, sNext, spc, sOld, sIdx, batches, sFails, sSince>>

pvars == <<pQ, pNext, pStop, pMt, pNotified, wpc, wIdx, wTask, nThreads,
           mNextThread, cnt, cpc, cWhy, cStart, cI, enq, ran, stopBegun,
           lateEnq, atStop, spurious, wTried, npc, nStart, nI, nTask, nCount>>

nvars == <<npc, nStart, nI, nTask, nCount>>

evars == <<eQ, eNext, mQueueSize, mIdleCount, mThreadCount, eMt, epc, eTask,
           eR, eNotified, ecpc, eEnq, eRan, eGrow, eSpurious,
           enpc, enTask, enCount>>

envars == <<enpc, enTask, enCount>>

fvars == <<len_, data_, look_up_, fLive, fLast>>

bvars == <<content_, bStop, bpc, bItem, bOps, bPopEmpty, bCorrupt>>

ivars == <<iData, iLive, iRc, iAlive, iDeletes, ipc, iSlot, iVal, iFreed>>

vars == <<q, next, held, fault, last, pushed, popped,
          sHead, sNext, spc, sOld, sIdx, batches, sFails, sSince,
          pQ, pNext, pStop, pMt, pNotified, wpc, wIdx, wTask, nThreads,
          mNextThread, cnt, cpc, cWhy, cStart, cI, enq, ran, stopBegun,
          lateEnq, atStop, spurious, wTried, npc, nStart, nI, nTask, nCount,
          eQ, eNext, mQueueSize, mIdleCount, mThreadCount, eMt, epc, eTask,
          eR, eNotified, ecpc, eEnq, eRan, eGrow, eSpurious,
          enpc, enTask, enCount,
          len_, data_, look_up_, fLive, fLast,
          content_, bStop, bpc, bItem, bOps, bPopEmpty, bCorrupt,
          iData, iLive, iRc, iAlive, iDeletes, ipc, iSlot, iVal, iFreed>>

----------------------------------------------------------------------------
(* Bounds *)

\* number of nodes of the Sequential Queue harness
MaxNodes == 3
\* number of pushBack calls of the FIFO harness
MaxPush == 4

\* producer threads of the lock-free stack (kNumThreads in the source is 4)
NumProducers == 2
\* items each producer pushes (kNumItems in the source is 1'000'000)
ItemsPerProducer == 2
\* popAll calls of the consumer
MaxPopAll == 2

\* tasks enqueued, by the caller (1'000'000 in the source) and by running
\* tasks
NumTasks == 2
\* spurious wake-ups of a condition variable over a run
MaxSpurious == 1

\* tasks enqueued into the elastic pool, by the caller (kTaskNum in the
\* source is 600) and by running tasks
NumETasks == 6
\* mThreadLimits, the constructor's threadLimit (kMaxTheadNum in the source
\* is 50)
ThreadLimit == 2
\* spurious returns of wait_for over a run
MaxESpurious == 1
\* growPool, line 56: the backlog per idle worker that triggers growth
GrowRatio == 5

\* the most Items the FreeList's vector grows to
MaxItems == 4
\* the values allocated are 1..NumVals
NumVals == 2

\* BoundedQueue: capacity_, the threads calling it, the calls they make in
\* all, and the items pushed are 1..NumBItems
BCapacity == 2
NumBThreads == 2
MaxBOps == 4
NumBItems == 2

\* IntrPtr: the threads, the IntrPtr objects each thread owns, and the
\* control blocks
NumIThreads == 2
ISlotsPer == 2
NumIBlocks == 2

\* the most enqueue calls made from inside running tasks, per pool
MaxNested == 1

NULL == 0
Nodes == 1..MaxNodes
QNames == {"A", "B"}

----------------------------------------------------------------------------
(* Sequential Queue: intr_queue.cpp *)

\* Queue(): mHead{nullptr}, mTail{nullptr}
EmptyQueue == [mHead |-> NULL, mTail |-> NULL]

\* Queue::empty
empty(qu) == qu.mHead = NULL

\* Queue::popFront(): [item, q, next]
popFront(qu, nx) ==
  IF qu.mHead = NULL
  THEN [item |-> NULL, q |-> qu, next |-> nx]
  ELSE LET item == qu.mHead
       IN  [item |-> item,
            q    |-> [mHead |-> nx[item],
                      mTail |-> IF nx[item] = NULL THEN NULL ELSE qu.mTail],
            next |-> nx]

\* Queue::pushFront: [q, next]
pushFront(qu, nx, item) ==
  [q    |-> [mHead |-> item,
             mTail |-> IF qu.mTail = NULL THEN item ELSE qu.mTail],
   next |-> [nx EXCEPT ![item] = qu.mHead]]

\* a pushBack that forgets to link the old tail to the new node
pushBackNoLink(qu, nx, item) ==
  [q    |-> [mHead |-> IF qu.mTail = NULL THEN item ELSE qu.mHead,
             mTail |-> item],
   next |-> [nx EXCEPT ![item] = NULL]]

\* a pushBack that links the node at the front
pushBackAtFront(qu, nx, item) == pushFront(qu, nx, item)

\* Queue::pushBack: [q, next]
pushBack(qu, nx, item) ==
  LET nx1 == [nx EXCEPT ![item] = NULL]
  IN  IF qu.mTail = NULL
      THEN [q |-> [mHead |-> item, mTail |-> item], next |-> nx1]
      ELSE [q    |-> [mHead |-> qu.mHead, mTail |-> item],
            next |-> [nx1 EXCEPT ![qu.mTail] = item]]

\* the for loop of popFront(n): q.mTail after the steps i = i0 .. n-1
RECURSIVE popFrontNWalk(_, _, _, _)
popFrontNWalk(t, i, n, nx) ==
  IF i < n /\ t # NULL THEN popFrontNWalk(nx[t], i + 1, n, nx) ELSE t

\* Queue::popFront(std::size_t n): [ret, q, next]
popFrontN(qu, nx, n) ==
  LET t == popFrontNWalk(qu.mHead, 1, n, nx)
  IN  IF t # NULL
      THEN [ret  |-> [mHead |-> qu.mHead, mTail |-> t],
            q    |-> [mHead |-> nx[t], mTail |-> qu.mTail],
            next |-> [nx EXCEPT ![t] = NULL]]
      ELSE [ret  |-> [mHead |-> qu.mHead, mTail |-> NULL],
            q    |-> EmptyQueue,
            next |-> nx]

\* Queue::append dereferences mTail when the receiver is not empty
appendFaults(qu, other) == ~empty(other) /\ ~empty(qu) /\ qu.mTail = NULL


\* Queue::append(Queue other), other already moved out of the argument: [q, next]
append(qu, other, nx) ==
  IF empty(other)
  THEN [q |-> qu, next |-> nx]
  ELSE IF empty(qu)
       THEN [q |-> [mHead |-> other.mHead, mTail |-> other.mTail], next |-> nx]
       ELSE [q    |-> [mHead |-> qu.mHead, mTail |-> other.mTail],
             next |-> [nx EXCEPT ![qu.mTail] = other.mHead]]

\* Queue::preappend dereferences other.mTail
preappendFaults(qu, other) == ~empty(other) /\ other.mTail = NULL

\* Queue::preappend(Queue other): [q, next]
preappend(qu, other, nx) ==
  IF empty(other)
  THEN [q |-> qu, next |-> nx]
  ELSE [q    |-> [mHead |-> other.mHead,
                  mTail |-> IF qu.mTail = NULL THEN other.mTail ELSE qu.mTail],
        next |-> [nx EXCEPT ![other.mTail] = qu.mHead]]

\* a loop of Queue::from that leaves the links as they are
RECURSIVE fromLoopNoRelink(_, _, _)
fromLoopNoRelink(list, newHead, nx) ==
  IF list = NULL
  THEN [head |-> newHead, next |-> nx]
  ELSE fromLoopNoRelink(nx[list], list, nx)

\* the while loop of Queue::from: [head, next]
RECURSIVE fromLoop(_, _, _)
fromLoop(list, newHead, nx) ==
  IF list = NULL
  THEN [head |-> newHead, next |-> nx]
  ELSE fromLoop(nx[list], list, [nx EXCEPT ![list] = newHead])

\* a from that hands the chain over as it is, its first node the front
fromAsIs(list, nx) ==
  [q |-> [mHead |-> list, mTail |-> list], next |-> nx]

\* Queue::from(Item* list): [q, next]
from(list, nx) ==
  LET r == fromLoop(list, NULL, nx)
  IN  [q |-> [mHead |-> r.head, mTail |-> list], next |-> r.next]

\* while (!q.empty()) q.popFront(): the nodes returned, at most fuel of them
RECURSIVE drainFuel(_, _, _)
drainFuel(qu, nx, fuel) ==
  LET r == popFront(qu, nx)
  IN  IF fuel = 0 \/ r.item = NULL
      THEN <<>>
      ELSE <<r.item>> \o drainFuel(r.q, r.next, fuel - 1)

\* fuel past the longest well-formed chain of either harness
drain(qu, nx) == drainFuel(qu, nx, MaxNodes + NumProducers * ItemsPerProducer + 1)

----------------------------------------------------------------------------
(* Sequential Queue harness: a single caller applying the operations *)

NoOp == [op |-> "none", x |-> "A", y |-> "A", n |-> 0,
         preX |-> <<>>, preY |-> <<>>, ret |-> NULL]

QueueInit ==
  /\ q = [x \in QNames |-> EmptyQueue]
  /\ next = [i \in Nodes |-> NULL]
  /\ held = Nodes
  /\ fault = FALSE
  /\ last = NoOp
  /\ pushed = <<>>
  /\ popped = <<>>

\* q.pushFront(item) on a node the caller holds
QPushFront(x, item) ==
  /\ ~fault /\ item \in held
  /\ LET r == pushFront(q[x], next, item)
     IN  /\ q' = [q EXCEPT ![x] = r.q]
         /\ next' = r.next
         /\ last' = [op |-> "pushFront", x |-> x, y |-> x, n |-> 0,
                     preX |-> drain(q[x], next), preY |-> <<>>, ret |-> item]
  /\ held' = held \ {item}
  /\ UNCHANGED <<fault, pushed, popped, svars, pvars, evars, fvars, bvars, ivars>>

\* q.pushBack(item) on a node the caller holds
QPushBack(x, item) ==
  /\ ~fault /\ item \in held
  /\ LET r == pushBack(q[x], next, item)
     IN  /\ q' = [q EXCEPT ![x] = r.q]
         /\ next' = r.next
         /\ last' = [op |-> "pushBack", x |-> x, y |-> x, n |-> 0,
                     preX |-> drain(q[x], next), preY |-> <<>>, ret |-> item]
  /\ held' = held \ {item}
  /\ UNCHANGED <<fault, pushed, popped, svars, pvars, evars, fvars, bvars, ivars>>

\* item = q.popFront()
QPopFront(x) ==
  /\ ~fault
  /\ LET r == popFront(q[x], next)
     IN  /\ q' = [q EXCEPT ![x] = r.q]
         /\ next' = r.next
         /\ held' = IF r.item = NULL THEN held ELSE held \cup {r.item}
         /\ last' = [op |-> "popFront", x |-> x, y |-> x, n |-> 0,
                     preX |-> drain(q[x], next), preY |-> <<>>, ret |-> r.item]
  /\ UNCHANGED <<fault, pushed, popped, svars, pvars, evars, fvars, bvars, ivars>>

\* auto y = x.popFront(n): y is a new queue object
QPopFrontN(x, y, n) ==
  /\ ~fault /\ x # y /\ q[y] = EmptyQueue
  /\ LET r == popFrontN(q[x], next, n)
     IN  /\ q' = [q EXCEPT ![x] = r.q, ![y] = r.ret]
         /\ next' = r.next
         /\ last' = [op |-> "popFrontN", x |-> x, y |-> y, n |-> n,
                     preX |-> drain(q[x], next), preY |-> <<>>, ret |-> NULL]
  /\ UNCHANGED <<held, fault, pushed, popped, svars, pvars, evars, fvars, bvars, ivars>>

\* x.append(std::move(y)): the parameter is move-constructed from y (lines 11-13)
QAppend(x, y) ==
  /\ ~fault /\ x # y
  /\ last' = [op |-> "append", x |-> x, y |-> y, n |-> 0,
              preX |-> drain(q[x], next), preY |-> drain(q[y], next), ret |-> NULL]
  /\ IF appendFaults(q[x], q[y])
     THEN /\ fault' = TRUE
          /\ q' = [q EXCEPT ![y] = EmptyQueue]
          /\ UNCHANGED next
     ELSE LET r == append(q[x], q[y], next)
          IN  /\ q' = [q EXCEPT ![x] = r.q, ![y] = EmptyQueue]
              /\ next' = r.next
              /\ UNCHANGED fault
  /\ UNCHANGED <<held, pushed, popped, svars, pvars, evars, fvars, bvars, ivars>>

\* x.preappend(std::move(y))
QPreappend(x, y) ==
  /\ ~fault /\ x # y
  /\ last' = [op |-> "preappend", x |-> x, y |-> y, n |-> 0,
              preX |-> drain(q[x], next), preY |-> drain(q[y], next), ret |-> NULL]
  /\ IF preappendFaults(q[x], q[y])
     THEN /\ fault' = TRUE
          /\ q' = [q EXCEPT ![y] = EmptyQueue]
          /\ UNCHANGED next
     ELSE LET r == preappend(q[x], q[y], next)
          IN  /\ q' = [q EXCEPT ![x] = r.q, ![y] = EmptyQueue]
              /\ next' = r.next
              /\ UNCHANGED fault
  /\ UNCHANGED <<held, pushed, popped, svars, pvars, evars, fvars, bvars, ivars>>

\* the chains a caller can build from nodes it holds: a first node and links
Chains(S) ==
  {<<>>} \cup {<<a>> : a \in S}
         \cup {c \in {<<a, b>> : a \in S, b \in S} : c[1] # c[2]}
         \cup {c \in {<<a, b, d>> : a \in S, b \in S, d \in S} :
                 c[1] # c[2] /\ c[1] # c[3] /\ c[2] # c[3]}

\* the links of chain c: c[1] -> c[2] -> ... -> nullptr
linkChain(c, nx) ==
  [i \in Nodes |->
     IF \E k \in 1..Len(c) : c[k] = i
     THEN LET k == CHOOSE k \in 1..Len(c) : c[k] = i
          IN  IF k = Len(c) THEN NULL ELSE c[k + 1]
     ELSE nx[i]]

\* auto y = Queue::from(list), list the first node of a chain the caller built
QFrom(y, c) ==
  /\ ~fault /\ q[y] = EmptyQueue
  /\ LET r == from(IF c = <<>> THEN NULL ELSE c[1], linkChain(c, next))
     IN  /\ q' = [q EXCEPT ![y] = r.q]
         /\ next' = r.next
         /\ last' = [op |-> "from", x |-> y, y |-> y, n |-> 0,
                     preX |-> c, preY |-> <<>>, ret |-> NULL]
  /\ held' = held \ {c[k] : k \in 1..Len(c)}
  /\ UNCHANGED <<fault, pushed, popped, svars, pvars, evars, fvars, bvars, ivars>>

----------------------------------------------------------------------------
(* Lock-free stack: atomic_queue.cpp *)

Producers == 0..(NumProducers - 1)
\* new Item{tid * kNumItems + i}: the item's address, named by its tag + 1
ItemOf(tid, i) == tid * ItemsPerProducer + i + 1
Items == 1..(NumProducers * ItemsPerProducer)

StackInit ==
  /\ sHead = NULL
  /\ sNext = [i \in Items |-> NULL]
  /\ spc = [t \in Producers |-> "load"]
  /\ sOld = [t \in Producers |-> NULL]
  /\ sIdx = [t \in Producers |-> 0]
  /\ batches = <<>>
  /\ sFails = [t \in Producers |-> 0]
  /\ sSince = [t \in Producers |-> 0]

\* the producers inside a pushFront call that has read mHead, other than t
InCall(t) == {u \in Producers \ {t} : spc[u] \in {"link", "cas"}}


\* pushFront, line 18: oldHead = mHead.load()
SLoad(t) ==
  /\ spc[t] = "load"
  /\ sOld' = [sOld EXCEPT ![t] = sHead]
  /\ spc' = [spc EXCEPT ![t] = "link"]
  /\ UNCHANGED <<sHead, sNext, sIdx, batches, sFails, sSince,
                 qvars, pvars, evars, fvars, bvars, ivars>>

\* pushFront, line 20: t->*next = oldHead
SLink(t) ==
  /\ spc[t] = "link"
  /\ sNext' = [sNext EXCEPT ![ItemOf(t, sIdx[t])] = sOld[t]]
  /\ spc' = [spc EXCEPT ![t] = "cas"]
  /\ UNCHANGED <<sHead, sOld, sIdx, batches, sFails, sSince,
                 qvars, pvars, evars, fvars, bvars, ivars>>

\* a compare-and-swap that stores without comparing
casBlind(head, expected, desired) ==
  {[ok |-> TRUE, head |-> desired, expected |-> expected]}

\* a compare-and-swap that does not write the value it found to expected
casNoReload(head, expected, desired) ==
  IF head = expected
  THEN {[ok |-> TRUE, head |-> desired, expected |-> expected],
        [ok |-> FALSE, head |-> head, expected |-> expected]}
  ELSE {[ok |-> FALSE, head |-> head, expected |-> expected]}

\* std::atomic::compare_exchange_weak(expected, desired): [ok, head, expected]
\* for every outcome the call can have; the weak form may fail spuriously
compareExchangeWeak(head, expected, desired) ==
  IF head = expected
  THEN {[ok |-> TRUE, head |-> desired, expected |-> expected],
        [ok |-> FALSE, head |-> head, expected |-> head]}
  ELSE {[ok |-> FALSE, head |-> head, expected |-> head]}

\* pushFront, line 21: the loop condition; then the for loop of the producer
\* (lines 56-59) goes to its next item or counts the latch down
SCas(t) ==
  /\ spc[t] = "cas"
  /\ \E r \in compareExchangeWeak(sHead, sOld[t], ItemOf(t, sIdx[t])) :
       /\ sHead' = r.head
       /\ sOld' = [sOld EXCEPT ![t] = r.expected]
       /\ IF r.ok
          THEN /\ sIdx' = [sIdx EXCEPT ![t] = @ + 1]
               /\ spc' = [spc EXCEPT ![t] =
                            IF sIdx[t] + 1 = ItemsPerProducer THEN "done" ELSE "load"]
               /\ sFails' = [sFails EXCEPT ![t] = 0]
               /\ sSince' = [u \in Producers |->
                               IF u = t THEN 0
                               ELSE IF u \in InCall(t) THEN sSince[u] + 1
                               ELSE sSince[u]]
          ELSE /\ spc' = [spc EXCEPT ![t] = "link"]
               /\ sFails' = [sFails EXCEPT ![t] =
                               IF sHead # sOld[t] THEN @ + 1 ELSE @]
               /\ UNCHANGED <<sIdx, sSince>>
  /\ UNCHANGED <<sNext, batches, qvars, pvars, evars, fvars, bvars, ivars>>

\* a read of the head that leaves it in place
exchangeKeeps(head, desired) == [old |-> head, head |-> head]

\* std::atomic::exchange(desired): the value found and the value stored
exchange(head, desired) == [old |-> head, head |-> desired]

AllPushed == \A t \in Producers : spc[t] = "done"

\* popAll (lines 24-27) by the single consumer, which then drains the queue
\* it got (lines 67-71): from() relinks only nodes already off the stack
SPopAll ==
  /\ Len(batches) < MaxPopAll
  /\ LET x == exchange(sHead, NULL)
         r == from(x.old, sNext)
     IN  /\ sHead' = x.head
         /\ sNext' = r.next
         /\ batches' = Append(batches,
                          [items |-> drain(r.q, r.next), tail |-> r.q.mTail,
                           afterAll |-> AllPushed])
  /\ sSince' = [u \in Producers |->
                  IF spc[u] \in {"link", "cas"} THEN sSince[u] + 1 ELSE sSince[u]]
  /\ UNCHANGED <<spc, sOld, sIdx, sFails, qvars, pvars, evars, fvars, bvars, ivars>>

SNext ==
  \/ \E t \in Producers : SLoad(t)
  \/ \E t \in Producers : SLink(t)
  \/ \E t \in Producers : SCas(t)
  \/ SPopAll

----------------------------------------------------------------------------
(* Fixed work-stealing pool: static_thread_pool.cpp *)

\* StaticThreadPool(n) is constructed with n = 2 (kThreadCount in the source
\* is 4): worker i runs run(i)
Workers == {0, 1}
NumWorkers == Cardinality(Workers)
Tasks == 1..NumTasks
\* the tasks that running tasks enqueue
ChildTasks == (NumTasks + 1)..(NumTasks + MaxNested)
AllTasks == Tasks \cup ChildTasks
\* thread identities for the mutexes: the workers, the caller, nobody
Caller == NumWorkers
Nobody == -1

PoolInit ==
  /\ pQ = [w \in Workers |-> EmptyQueue]
  /\ pNext = [t \in AllTasks |-> NULL]
  /\ pStop = [w \in Workers |-> FALSE]
  /\ pMt = [w \in Workers |-> Nobody]
  /\ pNotified = [w \in Workers |-> FALSE]
  /\ wpc = [w \in Workers |-> "unborn"]
  /\ wIdx = [w \in Workers |-> w]
  /\ wTask = [w \in Workers |-> NULL]
  /\ nThreads = 0
  /\ mNextThread = 0
  /\ cnt = 0
  /\ cpc = "ctor"
  /\ cWhy = "none"
  /\ cStart = 0
  /\ cI = 0
  /\ enq = 0
  /\ ran = [t \in AllTasks |-> 0]
  /\ stopBegun = FALSE
  /\ lateEnq = {}
  /\ atStop = {}
  /\ spurious = 0
  /\ wTried = [w \in Workers |-> << >>]
  /\ npc = [w \in Workers |-> "none"]
  /\ nStart = [w \in Workers |-> 0]
  /\ nI = [w \in Workers |-> 0]
  /\ nTask = [w \in Workers |-> NULL]
  /\ nCount = 0

\* a try_to_lock that reports success whoever holds the mutex
tryLockAlways(holder) == {TRUE}

\* std::unique_lock(mMt, std::try_to_lock): owns_lock() for every outcome the
\* attempt can have; it may fail although nobody holds the mutex
tryLockOutcomes(holder) ==
  IF holder = Nobody THEN {TRUE, FALSE} ELSE {FALSE}

\* mCv.notify_one(): wakes the owner if it is waiting on its condition variable
notifyOne(w, notified) ==
  [notified EXCEPT ![w] = @ \/ wpc[w] = "wait"]

\* a pop loop that looks at the stop flag before the queue
popOutcomeStopFirst(qu, stop) ==
  IF stop THEN "exit" ELSE IF empty(qu) THEN "wait" ELSE "take"

\* ThreadState::pop, lines 149-155: what the loop does with the lock held
popOutcome(qu, stop) ==
  IF ~empty(qu) THEN "take" ELSE IF stop THEN "exit" ELSE "wait"

\* a requestStop that sets the flag and wakes nobody
requestStopSilent(w, notified) == notified

\* ThreadState::requestStop, line 180: mCv.notify_one() after setting the flag
requestStopNotify(w, notified) == notifyOne(w, notified)

\* a scan that goes straight from the worker's own queue to the blocking pop
AdvanceSkipsSiblings(w) ==
  /\ wIdx' = [wIdx EXCEPT ![w] = w]
  /\ wpc' = [wpc EXCEPT ![w] = "pop"]

\* run(), lines 200-203: queueIdx = (queueIdx + 1) % mThreadCount, and where
\* the scan goes on: the next sibling, or the blocking pop
Advance(w) ==
  LET nxt == (wIdx[w] + 1) % NumWorkers
  IN  /\ wIdx' = [wIdx EXCEPT ![w] = nxt]
      /\ wpc' = [wpc EXCEPT ![w] = IF nxt = w THEN "pop" ELSE "scan"]

\* a pop that returns the front task and leaves it linked
takeFrontLinked(qu, nx) == [item |-> qu.mHead, q |-> qu, next |-> nx]

\* tryPop, line 145, and pop, line 155: return mQueue.popFront()
takeFront(qu, nx) == popFront(qu, nx)

\* run(), line 197: one more tryPop of this iteration has returned
Tried(w, got) ==
  wTried' = [wTried EXCEPT ![w] = Append(@, [q |-> wIdx[w], got |-> got])]

\* a unique_lock whose destructor leaves the mutex locked
unlockKept(mt, idx) == mt

\* ~unique_lock at the return of tryPop (lines 143, 145) and of pop (lines
\* 151, 155), and the release inside mCv.wait (line 153)
unlock(mt, idx) == [mt EXCEPT ![idx] = Nobody]

\* tryPop, line 141: the try_to_lock on mThreadStates[queueIdx]
WTryPopLock(w) ==
  /\ wpc[w] = "scan"
  /\ \E ok \in tryLockOutcomes(pMt[wIdx[w]]) :
       IF ok
       THEN /\ pMt' = [pMt EXCEPT ![wIdx[w]] = w]
            /\ wpc' = [wpc EXCEPT ![w] = "scanLocked"]
            /\ UNCHANGED <<wIdx, wTried>>
       ELSE /\ Advance(w)
            /\ Tried(w, NULL)
            /\ UNCHANGED pMt
  /\ UNCHANGED <<pQ, pNext, pStop, pNotified, wTask, nThreads, mNextThread,
                 cnt, cpc, cWhy, cStart, cI, enq, ran, stopBegun, lateEnq,
                 atStop, spurious, nvars, qvars, svars, evars, fvars, bvars, ivars>>

\* tryPop, lines 142-145, with the lock held; then run(), lines 197-203
WTryPopBody(w) ==
  /\ wpc[w] = "scanLocked"
  /\ pMt' = unlock(pMt, wIdx[w])
  /\ IF empty(pQ[wIdx[w]])
     THEN /\ Advance(w)
          /\ Tried(w, NULL)
          /\ UNCHANGED <<pQ, pNext, wTask>>
     ELSE LET r == takeFront(pQ[wIdx[w]], pNext)
          IN  /\ pQ' = [pQ EXCEPT ![wIdx[w]] = r.q]
              /\ pNext' = r.next
              /\ wTask' = [wTask EXCEPT ![w] = r.item]
              /\ wpc' = [wpc EXCEPT ![w] = "run"]
              /\ Tried(w, r.item)
              /\ UNCHANGED wIdx
  /\ UNCHANGED <<pStop, pNotified, nThreads, mNextThread,
                 cnt, cpc, cWhy, cStart, cI, enq, ran, stopBegun, lateEnq,
                 atStop, spurious, nvars, qvars, svars, evars, fvars, bvars, ivars>>

\* pop, line 148: std::unique_lock(mMt) on the worker's own state; also the
\* relock when mCv.wait returns
WPopLock(w) ==
  /\ wpc[w] = "pop"
  /\ pMt[w] = Nobody
  /\ pMt' = [pMt EXCEPT ![w] = w]
  /\ wpc' = [wpc EXCEPT ![w] = "popLocked"]
  /\ UNCHANGED <<pQ, pNext, pStop, pNotified, wIdx, wTask, nThreads,
                 mNextThread, cnt, cpc, cWhy, cStart, cI, enq, ran, stopBegun,
                 lateEnq, atStop, spurious, wTried, nvars, qvars, svars, evars, fvars, bvars, ivars>>

\* pop, lines 149-155, with the lock held: take a task, return nullptr (and
\* run() returns, line 207), or wait on mCv, which releases the lock
WPopBody(w) ==
  /\ wpc[w] = "popLocked"
  /\ pMt' = unlock(pMt, w)
  /\ LET o == popOutcome(pQ[w], pStop[w])
     IN  IF o = "take"
         THEN LET r == takeFront(pQ[w], pNext)
              IN  /\ pQ' = [pQ EXCEPT ![w] = r.q]
                  /\ pNext' = r.next
                  /\ wTask' = [wTask EXCEPT ![w] = r.item]
                  /\ wpc' = [wpc EXCEPT ![w] = "run"]
                  /\ UNCHANGED pNotified
         ELSE /\ wpc' = [wpc EXCEPT ![w] = IF o = "exit" THEN "exited" ELSE "wait"]
              /\ pNotified' = [pNotified EXCEPT ![w] = FALSE]
              /\ UNCHANGED <<pQ, pNext, wTask>>
  /\ UNCHANGED <<pStop, wIdx, nThreads, mNextThread,
                 cnt, cpc, cWhy, cStart, cI, enq, ran, stopBegun, lateEnq,
                 atStop, spurious, wTried, nvars, qvars, svars, evars, fvars, bvars, ivars>>

\* mCv.wait(lk), line 153, returns after a notify
WWake(w) ==
  /\ wpc[w] = "wait"
  /\ pNotified[w]
  /\ pNotified' = [pNotified EXCEPT ![w] = FALSE]
  /\ wpc' = [wpc EXCEPT ![w] = "pop"]
  /\ UNCHANGED <<pQ, pNext, pStop, pMt, wIdx, wTask, nThreads, mNextThread,
                 cnt, cpc, cWhy, cStart, cI, enq, ran, stopBegun, lateEnq,
                 atStop, spurious, wTried, nvars, qvars, svars, evars, fvars, bvars, ivars>>

\* mCv.wait(lk), line 153, returns spuriously
WSpuriousWake(w) ==
  /\ wpc[w] = "wait"
  /\ ~pNotified[w]
  /\ spurious < MaxSpurious
  /\ spurious' = spurious + 1
  /\ wpc' = [wpc EXCEPT ![w] = "pop"]
  /\ UNCHANGED <<pQ, pNext, pStop, pMt, pNotified, wIdx, wTask, nThreads,
                 mNextThread, cnt, cpc, cWhy, cStart, cI, enq, ran, stopBegun,
                 lateEnq, atStop, wTried, nvars, qvars, svars, evars, fvars, bvars, ivars>>

\* run(), line 210: task->run(task, tid), which is Task::run, lines 230-238:
\* the counter is incremented and the task deletes itself; then the outer
\* loop starts over with queueIdx = tid
WRun(w) ==
  /\ wpc[w] = "run"
  /\ npc[w] = "none"
  /\ cnt' = cnt + 1
  /\ ran' = [ran EXCEPT ![wTask[w]] = @ + 1]
  /\ wTask' = [wTask EXCEPT ![w] = NULL]
  /\ wIdx' = [wIdx EXCEPT ![w] = w]
  /\ wpc' = [wpc EXCEPT ![w] = "scan"]
  /\ wTried' = [wTried EXCEPT ![w] = << >>]
  /\ UNCHANGED <<pQ, pNext, pStop, pMt, pNotified, nThreads, mNextThread,
                 cpc, cWhy, cStart, cI, enq, stopBegun, lateEnq,
                 atStop, spurious, nvars, qvars, svars, evars, fvars, bvars, ivars>>

WorkerStep(w) ==
  \/ WTryPopLock(w)
  \/ WTryPopBody(w)
  \/ WPopLock(w)
  \/ WPopBody(w)
  \/ WWake(w)
  \/ WRun(w)

\* the tasks linked in some worker's queue
Linked ==
  UNION {{drain(pQ[w], pNext)[k] : k \in 1..Len(drain(pQ[w], pNext))} : w \in Workers}

\* ThreadState::mQueue of worker w, front to back
QueueOf(w) == drain(pQ[w], pNext)

\* the places of task t in the workers' queues
PlacesOf(t) ==
  {pl \in Workers \X (1..(NumTasks + MaxNested)) :
     pl[2] <= Len(QueueOf(pl[1])) /\ QueueOf(pl[1])[pl[2]] = t}

\* constructor, line 105: mThreads.emplace_back([this, i] { run(i); })
CCtorSpawn ==
  /\ cpc = "ctor"
  /\ nThreads < NumWorkers
  /\ wpc' = [wpc EXCEPT ![nThreads] = "scan"]
  /\ nThreads' = nThreads + 1
  /\ cpc' = IF nThreads + 1 = NumWorkers THEN "idle" ELSE "ctor"
  /\ UNCHANGED <<pQ, pNext, pStop, pMt, pNotified, wIdx, wTask, mNextThread,
                 cnt, cWhy, cStart, cI, enq, ran, stopBegun, lateEnq, atStop,
                 spurious, wTried, nvars, qvars, svars, evars, fvars, bvars, ivars>>

\* constructor, lines 107-108: emplace_back throws, the handler calls requestStop
CCtorFail ==
  /\ cpc = "ctor"
  /\ nThreads < NumWorkers
  /\ cpc' = "stop"
  /\ cWhy' = "ctor"
  /\ cI' = 0
  /\ stopBegun' = TRUE
  /\ UNCHANGED <<pQ, pNext, pStop, pMt, pNotified, wpc, wIdx, wTask, nThreads,
                 mNextThread, cnt, cStart, enq, ran, lateEnq, atStop,
                 spurious, wTried, nvars, qvars, svars, evars, fvars, bvars, ivars>>

\* enqueue, lines 118-120: threadCount, startIdx, the counter's fetch_add (a
\* 32-bit counter: it cannot wrap within NumTasks calls)
CEnqueueBegin ==
  /\ cpc = "idle"
  /\ enq + nCount < NumTasks
  /\ enq' = enq + 1
  /\ cStart' = mNextThread % nThreads
  /\ mNextThread' = mNextThread + 1
  /\ cI' = 0
  /\ cpc' = "enqTry"
  /\ lateEnq' = IF stopBegun THEN lateEnq \cup {enq + 1} ELSE lateEnq
  /\ UNCHANGED <<pQ, pNext, pStop, pMt, pNotified, wpc, wIdx, wTask, nThreads,
                 cnt, cWhy, ran, stopBegun, atStop, spurious, wTried, nvars, qvars, svars, evars, fvars, bvars, ivars>>

\* an index computation that stays on the start index
enqueueIdxStuck(start, i, threadCount) == start

\* enqueue, lines 122-124: idx, wrapped once around the workers
enqueueIdx(start, i, threadCount) ==
  IF start + i < threadCount THEN start + i ELSE start + i - threadCount


\* a push that never notifies
pushNotifiesNever(qu) == FALSE

\* tryPush / push, lines 162-166 and 171-175: notify only if the queue was empty
pushNotifies(qu) == empty(qu)

\* tryPush / push with the lock on worker idx held: pushBack, notify, unlock
PushBody(idx, task) ==
  LET r == pushBack(pQ[idx], pNext, task)
  IN  /\ pQ' = [pQ EXCEPT ![idx] = r.q]
      /\ pNext' = r.next
      /\ pNotified' = IF pushNotifies(pQ[idx])
                      THEN notifyOne(idx, pNotified) ELSE pNotified
      /\ pMt' = [pMt EXCEPT ![idx] = Nobody]

\* tryPush, line 158, inside the loop of enqueue, lines 121-128
CEnqTryLock ==
  /\ cpc = "enqTry"
  /\ LET idx == enqueueIdx(cStart, cI, nThreads)
     IN  \E ok \in tryLockOutcomes(pMt[idx]) :
           IF ok
           THEN /\ pMt' = [pMt EXCEPT ![idx] = Caller]
                /\ cpc' = "enqTryLocked"
                /\ UNCHANGED cI
           ELSE /\ cI' = cI + 1
                /\ cpc' = IF cI + 1 = nThreads THEN "enqPush" ELSE "enqTry"
                /\ UNCHANGED pMt
  /\ UNCHANGED <<pQ, pNext, pStop, pNotified, wpc, wIdx, wTask, nThreads,
                 mNextThread, cnt, cWhy, cStart, enq, ran, stopBegun, lateEnq,
                 atStop, spurious, wTried, nvars, qvars, svars, evars, fvars, bvars, ivars>>

\* tryPush, lines 162-167, with the lock held; enqueue returns, line 126
CEnqTryBody ==
  /\ cpc = "enqTryLocked"
  /\ PushBody(enqueueIdx(cStart, cI, nThreads), enq)
  /\ cpc' = "idle"
  /\ UNCHANGED <<pStop, wpc, wIdx, wTask, nThreads, mNextThread, cnt, cWhy,
                 cStart, cI, enq, ran, stopBegun, lateEnq, atStop, spurious,
                 wTried, nvars, qvars, svars, evars, fvars, bvars, ivars>>

\* enqueue, line 129, and push, line 170: the blocking lock on startIdx
CEnqPushLock ==
  /\ cpc = "enqPush"
  /\ pMt[cStart] = Nobody
  /\ pMt' = [pMt EXCEPT ![cStart] = Caller]
  /\ cpc' = "enqPushLocked"
  /\ UNCHANGED <<pQ, pNext, pStop, pNotified, wpc, wIdx, wTask, nThreads,
                 mNextThread, cnt, cWhy, cStart, cI, enq, ran, stopBegun,
                 lateEnq, atStop, spurious, wTried, nvars, qvars, svars, evars, fvars, bvars, ivars>>

\* push, lines 171-175, with the lock held
CEnqPushBody ==
  /\ cpc = "enqPushLocked"
  /\ PushBody(cStart, enq)
  /\ cpc' = "idle"
  /\ UNCHANGED <<pStop, wpc, wIdx, wTask, nThreads, mNextThread, cnt, cWhy,
                 cStart, cI, enq, ran, stopBegun, lateEnq, atStop, spurious,
                 wTried, nvars, qvars, svars, evars, fvars, bvars, ivars>>

\* the caller calls requestStop(), line 131
CStopBegin ==
  /\ cpc = "idle"
  /\ ~stopBegun
  /\ cpc' = "stop"
  /\ cWhy' = "explicit"
  /\ cI' = 0
  /\ stopBegun' = TRUE
  /\ atStop' = Linked
  /\ UNCHANGED <<pQ, pNext, pStop, pMt, pNotified, wpc, wIdx, wTask, nThreads,
                 mNextThread, cnt, cStart, enq, ran, lateEnq, spurious,
                 wTried, nvars, qvars, svars, evars, fvars, bvars, ivars>>

\* the pool goes out of scope: ~StaticThreadPool, line 114, calls requestStop
CDtorBegin ==
  /\ cpc = "idle"
  /\ cpc' = "stop"
  /\ cWhy' = "dtor"
  /\ cI' = 0
  /\ stopBegun' = TRUE
  /\ atStop' = IF stopBegun THEN atStop ELSE Linked
  /\ UNCHANGED <<pQ, pNext, pStop, pMt, pNotified, wpc, wIdx, wTask, nThreads,
                 mNextThread, cnt, cStart, enq, ran, lateEnq, spurious,
                 wTried, nvars, qvars, svars, evars, fvars, bvars, ivars>>

\* ThreadState::requestStop, line 178, for state cI of the loop of line 132
CStopLock ==
  /\ cpc = "stop"
  /\ pMt[cI] = Nobody
  /\ pMt' = [pMt EXCEPT ![cI] = Caller]
  /\ cpc' = "stopLocked"
  /\ UNCHANGED <<pQ, pNext, pStop, pNotified, wpc, wIdx, wTask, nThreads,
                 mNextThread, cnt, cWhy, cStart, cI, enq, ran, stopBegun,
                 lateEnq, atStop, spurious, wTried, nvars, qvars, svars, evars, fvars, bvars, ivars>>

\* ThreadState::requestStop, lines 179-181, with the lock held; after the last
\* state requestStop returns: to the caller, or to join (lines 109, 115)
CStopBody ==
  /\ cpc = "stopLocked"
  /\ pStop' = [pStop EXCEPT ![cI] = TRUE]
  /\ pNotified' = requestStopNotify(cI, pNotified)
  /\ pMt' = [pMt EXCEPT ![cI] = Nobody]
  /\ IF cI + 1 < NumWorkers
     THEN /\ cI' = cI + 1
          /\ cpc' = "stop"
     ELSE /\ cI' = 0
          /\ cpc' = IF cWhy = "explicit" THEN "idle" ELSE "join"
  /\ UNCHANGED <<pQ, pNext, wpc, wIdx, wTask, nThreads, mNextThread, cnt, cWhy,
                 cStart, enq, ran, stopBegun, lateEnq, atStop, spurious,
                 wTried, nvars, qvars, svars, evars, fvars, bvars, ivars>>

\* a join that returns at once, as a detach would
joinedAtOnce(w) == TRUE

\* thread.join(), line 215, returns: the thread's run() has returned
joined(w) == wpc[w] = "exited"

\* join, lines 214-216: thread.join() returns once the worker has returned
CJoinOne ==
  /\ cpc = "join"
  /\ cI < nThreads
  /\ joined(cI)
  /\ cI' = cI + 1
  /\ UNCHANGED <<pQ, pNext, pStop, pMt, pNotified, wpc, wIdx, wTask, nThreads,
                 mNextThread, cnt, cpc, cWhy, cStart, enq, ran, stopBegun,
                 lateEnq, atStop, spurious, wTried, nvars, qvars, svars, evars, fvars, bvars, ivars>>

\* join, line 217: mThreads.clear(); the destructor returns, or the
\* constructor rethrows (line 110)
CJoinEnd ==
  /\ cpc = "join"
  /\ cI = nThreads
  /\ nThreads' = 0
  /\ cpc' = IF cWhy = "dtor" THEN "done" ELSE "thrown"
  /\ UNCHANGED <<pQ, pNext, pStop, pMt, pNotified, wpc, wIdx, wTask,
                 mNextThread, cnt, cWhy, cStart, cI, enq, ran, stopBegun,
                 lateEnq, atStop, spurious, wTried, nvars, qvars, svars, evars, fvars, bvars, ivars>>

CallerStep ==
  \/ CCtorSpawn
  \/ CCtorFail
  \/ CEnqueueBegin
  \/ CEnqTryLock
  \/ CEnqTryBody
  \/ CEnqPushLock
  \/ CEnqPushBody
  \/ CStopBegin
  \/ CDtorBegin
  \/ CStopLock
  \/ CStopBody
  \/ CJoinOne
  \/ CJoinEnd

\* a running task calls enqueue on the pool that runs it: enqueue, lines
\* 118-120, on the worker's thread
NEnqueueBegin(w) ==
  /\ wpc[w] = "run"
  /\ npc[w] = "none"
  /\ nCount < MaxNested
  /\ enq + nCount < NumTasks
  /\ nCount' = nCount + 1
  /\ nTask' = [nTask EXCEPT ![w] = NumTasks + nCount + 1]
  /\ nStart' = [nStart EXCEPT ![w] = mNextThread % nThreads]
  /\ mNextThread' = mNextThread + 1
  /\ nI' = [nI EXCEPT ![w] = 0]
  /\ npc' = [npc EXCEPT ![w] = "try"]
  /\ UNCHANGED <<pQ, pNext, pStop, pMt, pNotified, wpc, wIdx, wTask, nThreads,
                 cnt, cpc, cWhy, cStart, cI, enq, ran, stopBegun, lateEnq,
                 atStop, spurious, wTried, qvars, svars, evars, fvars, bvars, ivars>>

\* tryPush, line 158, inside the loop of enqueue, lines 121-128
NEnqTryLock(w) ==
  /\ npc[w] = "try"
  /\ LET idx == enqueueIdx(nStart[w], nI[w], nThreads)
     IN  \E ok \in tryLockOutcomes(pMt[idx]) :
           IF ok
           THEN /\ pMt' = [pMt EXCEPT ![idx] = w]
                /\ npc' = [npc EXCEPT ![w] = "tryLocked"]
                /\ UNCHANGED nI
           ELSE /\ nI' = [nI EXCEPT ![w] = @ + 1]
                /\ npc' = [npc EXCEPT ![w] =
                             IF nI[w] + 1 = nThreads THEN "push" ELSE "try"]
                /\ UNCHANGED pMt
  /\ UNCHANGED <<pQ, pNext, pStop, pNotified, wpc, wIdx, wTask, nThreads,
                 mNextThread, cnt, cpc, cWhy, cStart, cI, enq, ran, stopBegun,
                 lateEnq, atStop, spurious, wTried, nStart, nTask, nCount,
                 qvars, svars, evars, fvars, bvars, ivars>>

\* tryPush, lines 162-167, with the lock held; enqueue returns, line 126
NEnqTryBody(w) ==
  /\ npc[w] = "tryLocked"
  /\ PushBody(enqueueIdx(nStart[w], nI[w], nThreads), nTask[w])
  /\ npc' = [npc EXCEPT ![w] = "none"]
  /\ UNCHANGED <<pStop, wpc, wIdx, wTask, nThreads, mNextThread, cnt, cpc,
                 cWhy, cStart, cI, enq, ran, stopBegun, lateEnq, atStop,
                 spurious, wTried, nStart, nI, nTask, nCount,
                 qvars, svars, evars, fvars, bvars, ivars>>

\* enqueue, line 129, and push, line 170: the blocking lock on startIdx
NEnqPushLock(w) ==
  /\ npc[w] = "push"
  /\ pMt[nStart[w]] = Nobody
  /\ pMt' = [pMt EXCEPT ![nStart[w]] = w]
  /\ npc' = [npc EXCEPT ![w] = "pushLocked"]
  /\ UNCHANGED <<pQ, pNext, pStop, pNotified, wpc, wIdx, wTask, nThreads,
                 mNextThread, cnt, cpc, cWhy, cStart, cI, enq, ran, stopBegun,
                 lateEnq, atStop, spurious, wTried, nStart, nI, nTask, nCount,
                 qvars, svars, evars, fvars, bvars, ivars>>

\* push, lines 171-175, with the lock held
NEnqPushBody(w) ==
  /\ npc[w] = "pushLocked"
  /\ PushBody(nStart[w], nTask[w])
  /\ npc' = [npc EXCEPT ![w] = "none"]
  /\ UNCHANGED <<pStop, wpc, wIdx, wTask, nThreads, mNextThread, cnt, cpc,
                 cWhy, cStart, cI, enq, ran, stopBegun, lateEnq, atStop,
                 spurious, wTried, nStart, nI, nTask, nCount,
                 qvars, svars, evars, fvars, bvars, ivars>>

\* the steps of an enqueue that the task worker w is running calls
NestedStep(w) ==
  \/ NEnqueueBegin(w)
  \/ NEnqTryLock(w)
  \/ NEnqTryBody(w)
  \/ NEnqPushLock(w)
  \/ NEnqPushBody(w)

PNext ==
  \/ \E w \in Workers : WorkerStep(w)
  \/ \E w \in Workers : WSpuriousWake(w)
  \/ CallerStep

----------------------------------------------------------------------------
(* Elastic pool: blocking_thread_pool.cpp *)

\* the threads a pool limited to ThreadLimit workers can have alive at once
ESlots == 1..ThreadLimit
ETasks == 1..NumETasks
\* the tasks that running tasks enqueue
EChildTasks == (NumETasks + 1)..(NumETasks + MaxNested)
EAllTasks == ETasks \cup EChildTasks
\* the identity of the thread calling enqueue, for mQueueMt
ECaller == 0

NoGrow == [by |-> Nobody, size |-> 0, qlen |-> 0, idle |-> 0, live |-> 0,
           spawned |-> 0, started |-> 0, idleAfter |-> 0, liveAfter |-> 0]

\* BlockingThreadPool pool(kMaxTheadNum), line 97: an object of static
\* storage, so mQueueSize, which the constructor leaves alone, is zero
ElasticInit ==
  /\ eQ = EmptyQueue
  /\ eNext = [t \in EAllTasks |-> NULL]
  /\ mQueueSize = 0
  /\ mIdleCount = 0
  /\ mThreadCount = 0
  /\ eMt = Nobody
  /\ epc = [s \in ESlots |-> "none"]
  /\ eTask = [s \in ESlots |-> NULL]
  /\ eR = [s \in ESlots |-> "none"]
  /\ eNotified = [s \in ESlots |-> FALSE]
  /\ ecpc = "idle"
  /\ eEnq = 0
  /\ eRan = [t \in EAllTasks |-> 0]
  /\ eGrow = NoGrow
  /\ eSpurious = 0
  /\ enpc = [s \in ESlots |-> "none"]
  /\ enTask = [s \in ESlots |-> NULL]
  /\ enCount = 0

\* a growth check that never spawns
growPoolNever(size, idle, live, n) ==
  [idle |-> idle, live |-> live, spawned |-> n]

\* a growth check that spawns at most one worker
growPoolOnce(size, idle, live, n) ==
  IF size > idle * GrowRatio /\ live < ThreadLimit
  THEN [idle |-> idle + 1, live |-> live + 1, spawned |-> n + 1]
  ELSE [idle |-> idle, live |-> live, spawned |-> n]

\* a growth check that lets the live count reach one past the maximum
RECURSIVE growPoolUpTo(_, _, _, _)
growPoolUpTo(size, idle, live, n) ==
  IF size > idle * GrowRatio /\ live <= ThreadLimit
  THEN growPoolUpTo(size, idle + 1, live + 1, n + 1)
  ELSE [idle |-> idle, live |-> live, spawned |-> n]

\* growPool, lines 56-61: the counters after the loop and the number of
\* threads it created
RECURSIVE growPool(_, _, _, _)
growPool(size, idle, live, n) ==
  IF size > idle * GrowRatio /\ live < ThreadLimit
  THEN growPool(size, idle + 1, live + 1, n + 1)
  ELSE [idle |-> idle, live |-> live, spawned |-> n]

\* growPool, line 60: std::thread([this]() { loop(); }).detach(), n times;
\* a new thread takes the lowest slot no live thread has
RECURSIVE startThreads(_, _)
startThreads(pcs, n) ==
  LET free == {s \in ESlots : pcs[s] = "none"}
  IN  IF n = 0 \/ free = {}
      THEN pcs
      ELSE LET s == CHOOSE f \in free : \A g \in free : f <= g
           IN  startThreads([pcs EXCEPT ![s] = "start"], n - 1)

\* mQueueCv.notify_all(), line 59, when the loop of growPool ran
notifyAll(notified, spawned) ==
  [s \in ESlots |-> notified[s] \/ (spawned > 0 /\ epc[s] = "wait")]

\* mQueueCv.notify_one(), line 25: the workers it may unblock; NULL when no
\* worker is blocked in wait_for
notifyOneTargets ==
  LET blocked == {s \in ESlots : epc[s] = "wait" /\ ~eNotified[s]}
  IN  IF blocked = {} THEN {NULL} ELSE blocked

\* mQueue of the elastic pool, front to back
EQueue == drain(eQ, eNext)

\* the record of a growth check
growRecord(by, size, qlen, idle, live, g, pcs) ==
  [by |-> by, size |-> size, qlen |-> qlen, idle |-> idle, live |-> live,
   spawned |-> g.spawned,
   started |-> Cardinality({s \in ESlots : epc[s] = "none" /\ pcs[s] = "start"}),
   idleAfter |-> g.idle, liveAfter |-> g.live]

\* a test of the wait's result that does not look at the queue
exitsOnTimeout(r, qu) == r = "timeout"

\* a test of the wait's result that takes a notify for the timeout
exitsAfterNotify(r, qu) == r = "no_timeout" /\ empty(qu)

\* loop, line 45: the worker leaves after this wait
exitsAfterWait(r, qu) == r = "timeout" /\ empty(qu)

\* an exit that takes the worker off the live count only
exitCountsLiveOnly(idle, live) == [idle |-> idle, live |-> live - 1]

\* loop, lines 46-47
exitCounts(idle, live) == [idle |-> idle - 1, live |-> live - 1]

\* enqueue, line 22: auto lk = std::unique_lock(mQueueMt)
EEnqLock ==
  /\ ecpc = "idle"
  /\ eEnq + enCount < NumETasks
  /\ eMt = Nobody
  /\ eMt' = ECaller
  /\ ecpc' = "enqLocked"
  /\ UNCHANGED <<eQ, eNext, mQueueSize, mIdleCount, mThreadCount, epc, eTask,
                 eR, eNotified, eEnq, eRan, eGrow, eSpurious,
                 envars, qvars, svars, pvars, fvars, bvars, ivars>>

\* enqueue, lines 23-27
EnqueueBody(task, by) ==
  \E target \in notifyOneTargets :
    LET r    == pushBack(eQ, eNext, task)
        size == mQueueSize + 1
        g    == growPool(size, mIdleCount, mThreadCount, 0)
        pcs  == startThreads(epc, g.spawned)
        one  == [s \in ESlots |-> eNotified[s] \/ s = target]
    IN  /\ eQ' = r.q
        /\ eNext' = r.next
        /\ mQueueSize' = size
        /\ eNotified' = notifyAll(one, g.spawned)
        /\ mIdleCount' = g.idle
        /\ mThreadCount' = g.live
        /\ epc' = pcs
        /\ eGrow' = growRecord(by, size, Len(drain(r.q, r.next)),
                               mIdleCount, mThreadCount, g, pcs)

\* enqueue, lines 23-27, called by main
EEnqBody ==
  /\ ecpc = "enqLocked"
  /\ EnqueueBody(eEnq + 1, ECaller)
  /\ eEnq' = eEnq + 1
  /\ eMt' = Nobody
  /\ ecpc' = "idle"
  /\ UNCHANGED <<eTask, eR, eRan, eSpurious, envars, qvars, svars, pvars, fvars, bvars, ivars>>

\* loop, lines 33 and 41, and the lock wait_for takes again before it returns
ELock(s) ==
  /\ epc[s] \in {"start", "woken", "relock"}
  /\ eMt = Nobody
  /\ eMt' = s
  /\ epc' = [epc EXCEPT ![s] = CASE @ = "start"  -> "top"
                                 [] @ = "woken"  -> "afterWait"
                                 [] @ = "relock" -> "inner"]
  /\ UNCHANGED <<eQ, eNext, mQueueSize, mIdleCount, mThreadCount, eTask, eR,
                 eNotified, ecpc, eEnq, eRan, eGrow, eSpurious,
                 envars, qvars, svars, pvars, fvars, bvars, ivars>>

\* loop, lines 45-49: the worker terminates; lk's destructor unlocks
EExit(s) ==
  /\ epc[s] = "afterWait"
  /\ eMt = s
  /\ exitsAfterWait(eR[s], eQ)
  /\ LET c == exitCounts(mIdleCount, mThreadCount)
     IN  /\ mIdleCount' = c.idle
         /\ mThreadCount' = c.live
  /\ epc' = [epc EXCEPT ![s] = "none"]
  /\ eR' = [eR EXCEPT ![s] = "none"]
  /\ eMt' = Nobody
  /\ UNCHANGED <<eQ, eNext, mQueueSize, eTask, eNotified, ecpc, eEnq, eRan,
                 eGrow, eSpurious, envars, qvars, svars, pvars, fvars, bvars, ivars>>

\* mIdleCount where the inner while is tested: line 35 ran on the way unless
\* the worker comes from line 41
idleAtInner(s) == IF epc[s] = "inner" THEN mIdleCount ELSE mIdleCount - 1

\* loop, lines 36-39: a task is pending; grow, take it, unlock
ETake(s) ==
  /\ epc[s] \in {"top", "afterWait", "inner"}
  /\ eMt = s
  /\ ~(epc[s] = "afterWait" /\ exitsAfterWait(eR[s], eQ))
  /\ ~empty(eQ)
  /\ LET idle == idleAtInner(s)
         g    == growPool(mQueueSize, idle, mThreadCount, 0)
         pcs  == startThreads(epc, g.spawned)
         p    == popFront(eQ, eNext)
     IN  /\ mIdleCount' = g.idle
         /\ mThreadCount' = g.live
         /\ eNotified' = notifyAll(eNotified, g.spawned)
         /\ epc' = [pcs EXCEPT ![s] = "run"]
         /\ eTask' = [eTask EXCEPT ![s] = p.item]
         /\ eQ' = p.q
         /\ eNext' = p.next
         /\ eGrow' = growRecord(s, mQueueSize, Len(drain(eQ, eNext)), idle,
                                mThreadCount, g, pcs)
  /\ eR' = [eR EXCEPT ![s] = "none"]
  /\ eMt' = Nobody
  /\ UNCHANGED <<mQueueSize, ecpc, eEnq, eRan, eSpurious, envars, qvars, svars, pvars, fvars, bvars, ivars>>

\* loop, lines 36 and 43-44: nothing pending; wait_for releases the lock
EWait(s) ==
  /\ epc[s] \in {"top", "afterWait", "inner"}
  /\ eMt = s
  /\ ~(epc[s] = "afterWait" /\ exitsAfterWait(eR[s], eQ))
  /\ empty(eQ)
  /\ mIdleCount' = idleAtInner(s) + 1
  /\ epc' = [epc EXCEPT ![s] = "wait"]
  /\ eR' = [eR EXCEPT ![s] = "none"]
  /\ eMt' = Nobody
  /\ UNCHANGED <<eQ, eNext, mQueueSize, mThreadCount, eTask, eNotified, ecpc,
                 eEnq, eRan, eGrow, eSpurious, envars, qvars, svars, pvars, fvars, bvars, ivars>>

\* loop, line 40: task->run(task, 0)
ERun(s) ==
  /\ epc[s] = "run"
  /\ enpc[s] = "none"
  /\ eRan' = [eRan EXCEPT ![eTask[s]] = @ + 1]
  /\ eTask' = [eTask EXCEPT ![s] = NULL]
  /\ epc' = [epc EXCEPT ![s] = "relock"]
  /\ UNCHANGED <<eQ, eNext, mQueueSize, mIdleCount, mThreadCount, eMt, eR,
                 eNotified, ecpc, eEnq, eGrow, eSpurious, envars, qvars, svars, pvars, fvars, bvars, ivars>>

\* loop, line 44: wait_for ends because of a notify
EWake(s) ==
  /\ epc[s] = "wait"
  /\ eNotified[s]
  /\ eNotified' = [eNotified EXCEPT ![s] = FALSE]
  /\ eR' = [eR EXCEPT ![s] = "no_timeout"]
  /\ epc' = [epc EXCEPT ![s] = "woken"]
  /\ UNCHANGED <<eQ, eNext, mQueueSize, mIdleCount, mThreadCount, eMt, eTask,
                 ecpc, eEnq, eRan, eGrow, eSpurious, envars, qvars, svars, pvars, fvars, bvars, ivars>>

\* loop, line 44: the 500ms pass with no notify
ETimeout(s) ==
  /\ epc[s] = "wait"
  /\ ~eNotified[s]
  /\ eR' = [eR EXCEPT ![s] = "timeout"]
  /\ epc' = [epc EXCEPT ![s] = "woken"]
  /\ UNCHANGED <<eQ, eNext, mQueueSize, mIdleCount, mThreadCount, eMt, eTask,
                 eNotified, ecpc, eEnq, eRan, eGrow, eSpurious,
                 envars, qvars, svars, pvars, fvars, bvars, ivars>>

\* loop, line 44: wait_for ends with neither a notify nor the timeout
ESpuriousWake(s) ==
  /\ epc[s] = "wait"
  /\ ~eNotified[s]
  /\ eSpurious < MaxESpurious
  /\ eSpurious' = eSpurious + 1
  /\ eR' = [eR EXCEPT ![s] = "no_timeout"]
  /\ epc' = [epc EXCEPT ![s] = "woken"]
  /\ UNCHANGED <<eQ, eNext, mQueueSize, mIdleCount, mThreadCount, eMt, eTask,
                 eNotified, ecpc, eEnq, eRan, eGrow, envars, qvars, svars, pvars, fvars, bvars, ivars>>

\* the steps a worker thread takes once the scheduler runs it or its wait ends
EWorkerStep(s) ==
  \/ ELock(s)
  \/ EExit(s)
  \/ ETake(s)
  \/ EWait(s)
  \/ ERun(s)
  \/ EWake(s)
  \/ ETimeout(s)

\* a running task calls enqueue on the pool that runs it
ENEnqueueBegin(s) ==
  /\ epc[s] = "run"
  /\ enpc[s] = "none"
  /\ enCount < MaxNested
  /\ eEnq + enCount < NumETasks
  /\ enCount' = enCount + 1
  /\ enTask' = [enTask EXCEPT ![s] = NumETasks + enCount + 1]
  /\ enpc' = [enpc EXCEPT ![s] = "enq"]
  /\ UNCHANGED <<eQ, eNext, mQueueSize, mIdleCount, mThreadCount, eMt, epc,
                 eTask, eR, eNotified, ecpc, eEnq, eRan, eGrow, eSpurious,
                 qvars, svars, pvars, fvars, bvars, ivars>>

\* enqueue, line 22, on the worker's thread
ENEnqLock(s) ==
  /\ enpc[s] = "enq"
  /\ eMt = Nobody
  /\ eMt' = s
  /\ enpc' = [enpc EXCEPT ![s] = "enqLocked"]
  /\ UNCHANGED <<eQ, eNext, mQueueSize, mIdleCount, mThreadCount, epc,
                 eTask, eR, eNotified, ecpc, eEnq, eRan, eGrow, eSpurious,
                 enTask, enCount, qvars, svars, pvars, fvars, bvars, ivars>>

\* enqueue, lines 23-27, on the worker's thread
ENEnqBody(s) ==
  /\ enpc[s] = "enqLocked"
  /\ EnqueueBody(enTask[s], s)
  /\ eMt' = Nobody
  /\ enpc' = [enpc EXCEPT ![s] = "none"]
  /\ UNCHANGED <<eTask, eR, ecpc, eEnq, eRan, eSpurious, enTask, enCount,
                 qvars, svars, pvars, fvars, bvars, ivars>>

\* the steps of an enqueue that the task worker s is running calls
ENestedStep(s) ==
  \/ ENEnqueueBegin(s)
  \/ ENEnqLock(s)
  \/ ENEnqBody(s)

ENext ==
  \/ EEnqLock
  \/ EEnqBody
  \/ \E s \in ESlots : EWorkerStep(s)
  \/ \E s \in ESlots : ESpuriousWake(s)

----------------------------------------------------------------------------
(* FreeList (freelist.cpp) *)

\* storage whose object has been destroyed, or was never constructed
Dead == 0
FVals == 1..NumVals
FIndices == 0..(MaxItems - 1)

\* FreeList::Item: the bytes of one T and the index that owns the Item
Item(v, idx) == [val |-> v, look_up_idx_ |-> idx]

\* element i of a vector, counted from 0 as the code counts
At(vec, i) == vec[i + 1]

FreeListInit ==
  /\ len_ = 0
  /\ data_ = << >>
  /\ look_up_ = << >>
  /\ fLive = << >>
  /\ fLast = [op |-> "none", index |-> 0, val |-> Dead]

\* Allocate returning the position it filled instead of the index stored in
\* the reused Item
AllocateReturnsPosition(len, data, look_up, v) ==
  IF Len(data) = len
  THEN [len |-> len + 1,
        data |-> Append(data, Item(v, len)),
        look_up |-> Append(look_up, len),
        ret |-> len]
  ELSE [len |-> len + 1,
        data |-> [data EXCEPT ![len + 1].val = v],
        look_up |-> look_up,
        ret |-> len]

\* FreeList::Allocate: a new Item at the end when all Items are live,
\* otherwise the first dead Item, which keeps the index stored in it
Allocate(len, data, look_up, v) ==
  IF Len(data) = len
  THEN [len |-> len + 1,
        data |-> Append(data, Item(v, len)),
        look_up |-> Append(look_up, len),
        ret |-> len]
  ELSE [len |-> len + 1,
        data |-> [data EXCEPT ![len + 1].val = v],
        look_up |-> look_up,
        ret |-> At(data, len).look_up_idx_]

\* Deallocate without the swap of the two look-up entries
DeallocateNoLookUpSwap(len, data, look_up, index) ==
  LET cur == At(look_up, index)
      lst == len - 1
      swapped == [data EXCEPT ![cur + 1] = data[lst + 1],
                              ![lst + 1] = data[cur + 1]]
  IN [len |-> len - 1,
      data |-> [swapped EXCEPT ![lst + 1].val = Dead],
      look_up |-> look_up]

\* FreeList::Deallocate: swaps the Item of index with the last live Item,
\* and their look-up entries, destroys the object now in the last live
\* position and shrinks the live prefix by one
Deallocate(len, data, look_up, index) ==
  LET cur == At(look_up, index)
      lst == len - 1
      lastIdx == At(data, lst).look_up_idx_
      look_up1 == [look_up EXCEPT ![lastIdx + 1] = look_up[index + 1],
                                  ![index + 1] = look_up[lastIdx + 1]]
      swapped == [data EXCEPT ![cur + 1] = data[lst + 1],
                              ![lst + 1] = data[cur + 1]]
  IN [len |-> len - 1,
      data |-> [swapped EXCEPT ![lst + 1].val = Dead],
      look_up |-> look_up1]

\* FreeList::Contains
Contains(len, look_up, index) ==
  IF index >= Len(look_up) THEN FALSE ELSE At(look_up, index) < len

\* FreeList::Size
Size(len) == len

\* FreeList::Get
Get(data, look_up, index) == At(data, At(look_up, index)).val

FAllocate(v) ==
  /\ len_ < Len(data_) \/ Len(data_) < MaxItems
  /\ LET r == Allocate(len_, data_, look_up_, v) IN
       /\ len_' = r.len
       /\ data_' = r.data
       /\ look_up_' = r.look_up
       /\ fLive' = [i \in DOMAIN fLive \cup {r.ret} |->
                      IF i = r.ret THEN v ELSE fLive[i]]
       /\ fLast' = [op |-> "Allocate", index |-> r.ret, val |-> v]
  /\ UNCHANGED <<qvars, svars, pvars, evars, bvars, ivars>>

FDeallocate(index) ==
  /\ Contains(len_, look_up_, index)
  /\ LET r == Deallocate(len_, data_, look_up_, index) IN
       /\ len_' = r.len
       /\ data_' = r.data
       /\ look_up_' = r.look_up
       /\ fLive' = [i \in DOMAIN fLive \ {index} |-> fLive[i]]
       /\ fLast' = [op |-> "Deallocate", index |-> index, val |-> Dead]
  /\ UNCHANGED <<qvars, svars, pvars, evars, bvars, ivars>>

FNext ==
  \/ \E v \in FVals : FAllocate(v)
  \/ \E index \in FIndices : FDeallocate(index)

----------------------------------------------------------------------------
(* BoundedQueue (part_003) *)

BThreads == 1..NumBThreads
BItems == 1..NumBItems

BoundedInit ==
  /\ content_ = << >>
  /\ bStop = FALSE
  /\ bpc = [t \in BThreads |-> "idle"]
  /\ bItem = [t \in BThreads |-> 0]
  /\ bOps = 0
  /\ bPopEmpty = FALSE
  /\ bCorrupt = FALSE

\* condition_variable_any::wait(lk, pred) returns, with the lock held, only
\* when pred() is true
waitReturns(pred) == pred

\* condition_variable_any::wait(lk, tok, pred) returns, with the lock held,
\* when pred() is true or when stop has been requested on tok; its result,
\* pred(), is what tells the two apart
waitTokReturns(pred, stop) == pred \/ stop

\* content_.push_back(std::move(item))
push_back(content, item) == Append(content, item)

\* content_.front() and content_.pop_front() on a content_ that holds an item
pop_front(content) == Tail(content)

\* a thread begins one of the blocking calls: Push, Pop, and their
\* stop_token overloads
BCall(t, call, item) ==
  /\ ~bCorrupt
  /\ bpc[t] = "idle"
  /\ bOps < MaxBOps
  /\ bOps' = bOps + 1
  /\ bpc' = [bpc EXCEPT ![t] = call]
  /\ bItem' = [bItem EXCEPT ![t] = item]
  /\ UNCHANGED <<content_, bStop, bPopEmpty, bCorrupt,
                 qvars, svars, pvars, evars, fvars, ivars>>

\* Push, lines 14-18: the wait returns and the item is stored
BPush(t) ==
  /\ ~bCorrupt
  /\ bpc[t] = "Push"
  /\ waitReturns(Len(content_) < BCapacity)
  /\ content_' = push_back(content_, bItem[t])
  /\ bpc' = [bpc EXCEPT ![t] = "idle"]
  /\ UNCHANGED <<bStop, bItem, bOps, bPopEmpty, bCorrupt,
                 qvars, svars, pvars, evars, fvars, ivars>>

\* TryPush, lines 21-31
BTryPush(t, item) ==
  /\ ~bCorrupt
  /\ bpc[t] = "idle"
  /\ bOps < MaxBOps
  /\ bOps' = bOps + 1
  /\ content_' = IF Len(content_) = BCapacity
                 THEN content_ ELSE push_back(content_, item)
  /\ UNCHANGED <<bStop, bpc, bItem, bPopEmpty, bCorrupt,
                 qvars, svars, pvars, evars, fvars, ivars>>

\* Pop, lines 35-40: the wait returns and the front item is taken
BPop(t) ==
  /\ ~bCorrupt
  /\ bpc[t] = "Pop"
  /\ waitReturns(content_ # << >>)
  /\ content_' = pop_front(content_)
  /\ bpc' = [bpc EXCEPT ![t] = "idle"]
  /\ UNCHANGED <<bStop, bItem, bOps, bPopEmpty, bCorrupt,
                 qvars, svars, pvars, evars, fvars, ivars>>

\* TryPop, lines 43-54
BTryPop(t) ==
  /\ ~bCorrupt
  /\ bpc[t] = "idle"
  /\ bOps < MaxBOps
  /\ bOps' = bOps + 1
  /\ content_' = IF content_ = << >> THEN content_ ELSE pop_front(content_)
  /\ UNCHANGED <<bStop, bpc, bItem, bPopEmpty, bCorrupt,
                 qvars, svars, pvars, evars, fvars, ivars>>

\* Push(tok, item), lines 58-62: the result of the wait is not looked at,
\* the item is stored whichever way the wait returned
BPushTok(t) ==
  /\ ~bCorrupt
  /\ bpc[t] = "PushTok"
  /\ waitTokReturns(Len(content_) < BCapacity, bStop)
  /\ content_' = push_back(content_, bItem[t])
  /\ bpc' = [bpc EXCEPT ![t] = "idle"]
  /\ UNCHANGED <<bStop, bItem, bOps, bPopEmpty, bCorrupt,
                 qvars, svars, pvars, evars, fvars, ivars>>

\* Pop(tok, item), lines 67-72: the result of the wait is not looked at;
\* front() and pop_front() on an empty content_ are undefined, and leave
\* content_ empty or in no state the class can go on from
BPopTok(t) ==
  /\ ~bCorrupt
  /\ bpc[t] = "PopTok"
  /\ waitTokReturns(content_ # << >>, bStop)
  /\ IF content_ # << >>
     THEN /\ content_' = pop_front(content_)
          /\ UNCHANGED <<bPopEmpty, bCorrupt>>
     ELSE /\ bPopEmpty' = TRUE
          /\ bCorrupt' \in BOOLEAN
          /\ UNCHANGED content_
  /\ bpc' = [bpc EXCEPT ![t] = "idle"]
  /\ UNCHANGED <<bStop, bItem, bOps, qvars, svars, pvars, evars, fvars, ivars>>

\* the owner of the stop_source requests stop; the waits on the token return
BRequestStop ==
  /\ ~bCorrupt
  /\ ~bStop
  /\ bStop' = TRUE
  /\ UNCHANGED <<content_, bpc, bItem, bOps, bPopEmpty, bCorrupt,
                 qvars, svars, pvars, evars, fvars, ivars>>

BNext ==
  \/ \E t \in BThreads, item \in BItems : BCall(t, "Push", item)
  \/ \E t \in BThreads, item \in BItems : BCall(t, "PushTok", item)
  \/ \E t \in BThreads : BCall(t, "Pop", 0)
  \/ \E t \in BThreads : BCall(t, "PopTok", 0)
  \/ \E t \in BThreads : BPush(t)
  \/ \E t \in BThreads, item \in BItems : BTryPush(t, item)
  \/ \E t \in BThreads : BPop(t)
  \/ \E t \in BThreads : BTryPop(t)
  \/ \E t \in BThreads : BPushTok(t)
  \/ \E t \in BThreads : BPopTok(t)
  \/ BRequestStop

(***************************************************************************)
(* IntrPtr (part_000)                                                      *)
(***************************************************************************)
IThreads == 1..NumIThreads
IBlocks == 1..NumIBlocks
\* the IntrPtr objects: each belongs to the one thread that uses it
ISlots == IThreads \X (1..ISlotsPer)

\* The state after each control block was made by makeIntr (mRefCount(1),
\* part_000:16) and one copy of its IntrPtr was handed to every thread
\* before the threads run: object k of a thread refers to block k.
IntrInit ==
  /\ iData = [s \in ISlots |-> IF s[2] \in IBlocks THEN s[2] ELSE NULL]
  /\ iLive = [s \in ISlots |-> s[2] \in IBlocks]
  /\ iRc = [b \in IBlocks |-> IF b <= ISlotsPer THEN NumIThreads ELSE 0]
  /\ iAlive = [b \in IBlocks |-> b <= ISlotsPer]
  /\ iDeletes = [b \in IBlocks |-> 0]
  /\ ipc = [t \in IThreads |-> "idle"]
  /\ iSlot = [t \in IThreads |-> <<t, 1>>]
  /\ iVal = [t \in IThreads |-> NULL]
  /\ iFreed = FALSE

\* addRef(): mRefCount.fetch_add(1) when mData is not null
addRef(rc, p) == IF p # NULL THEN [rc EXCEPT ![p] = @ + 1] ELSE rc

releasesLastOfTwo(prev) == prev <= 2

\* release(): the caller deletes when fetch_sub(1) returned 1
releasesLast(prev) == prev = 1

\* IntrPtr(IntrPtr const& other) : mData(other.mData) { addRef(); }
\* first half: mData is initialised from other
ICopyCtor(t, a, b) ==
  /\ ipc[t] = "idle"
  /\ a[1] = t /\ b[1] = t
  /\ iLive[a] /\ ~iLive[b]
  /\ iData' = [iData EXCEPT ![b] = iData[a]]
  /\ ipc' = [ipc EXCEPT ![t] = "addRef"]
  /\ iSlot' = [iSlot EXCEPT ![t] = b]
  /\ UNCHANGED <<iLive, iRc, iAlive, iDeletes, iVal, iFreed>>

\* second half of the copy constructor: addRef() on the new object
IAddRef(t) ==
  /\ ipc[t] = "addRef"
  /\ iRc' = addRef(iRc, iData[iSlot[t]])
  /\ iFreed' = (iFreed \/ (iData[iSlot[t]] # NULL /\ ~iAlive[iData[iSlot[t]]]))
  /\ iLive' = [iLive EXCEPT ![iSlot[t]] = TRUE]
  /\ ipc' = [ipc EXCEPT ![t] = "idle"]
  /\ UNCHANGED <<iData, iAlive, iDeletes, iSlot, iVal>>

\* IntrPtr(IntrPtr&& other) : mData(std::exchange(other.mData, nullptr))
IMoveCtor(t, a, b) ==
  /\ ipc[t] = "idle"
  /\ a[1] = t /\ b[1] = t
  /\ iLive[a] /\ ~iLive[b]
  /\ iData' = [iData EXCEPT ![b] = iData[a], ![a] = NULL]
  /\ iLive' = [iLive EXCEPT ![b] = TRUE]
  /\ UNCHANGED <<iRc, iAlive, iDeletes, ipc, iSlot, iVal, iFreed>>

\* operator=(IntrPtr&& other): other.mData is exchanged with nullptr first,
\* then mData with that value; the temporary old takes what mData held and
\* its destructor releases it
IMoveAssign(t, x, y) ==
  /\ ipc[t] = "idle"
  /\ x[1] = t /\ y[1] = t
  /\ iLive[x] /\ iLive[y]
  /\ LET moved == iData[y]
         afterOther == [iData EXCEPT ![y] = NULL]
     IN /\ iVal' = [iVal EXCEPT ![t] = afterOther[x]]
        /\ iData' = [afterOther EXCEPT ![x] = moved]
  /\ ipc' = [ipc EXCEPT ![t] = "release"]
  /\ UNCHANGED <<iLive, iRc, iAlive, iDeletes, iSlot, iFreed>>

\* operator=(IntrPtr const& other) { return operator=(IntrPtr{other}); }
\* first half: the temporary IntrPtr{other} is initialised from other
ICopyAssign(t, x, y) ==
  /\ ipc[t] = "idle"
  /\ x[1] = t /\ y[1] = t
  /\ iLive[x] /\ iLive[y]
  /\ iVal' = [iVal EXCEPT ![t] = iData[y]]
  /\ iSlot' = [iSlot EXCEPT ![t] = x]
  /\ ipc' = [ipc EXCEPT ![t] = "addRefTmp"]
  /\ UNCHANGED <<iData, iLive, iRc, iAlive, iDeletes, iFreed>>

\* second half of the copy assignment: addRef() on the temporary, then the
\* move assignment from it; old takes what mData held, the emptied temporary
\* releases nothing
IAddRefTmp(t) ==
  /\ ipc[t] = "addRefTmp"
  /\ iRc' = addRef(iRc, iVal[t])
  /\ iFreed' = (iFreed \/ (iVal[t] # NULL /\ ~iAlive[iVal[t]]))
  /\ iData' = [iData EXCEPT ![iSlot[t]] = iVal[t]]
  /\ iVal' = [iVal EXCEPT ![t] = iData[iSlot[t]]]
  /\ ipc' = [ipc EXCEPT ![t] = "release"]
  /\ UNCHANGED <<iLive, iAlive, iDeletes, iSlot>>

\* reset() { operator=(IntrPtr{}); }
IReset(t, x) ==
  /\ ipc[t] = "idle"
  /\ x[1] = t
  /\ iLive[x]
  /\ iVal' = [iVal EXCEPT ![t] = iData[x]]
  /\ iData' = [iData EXCEPT ![x] = NULL]
  /\ ipc' = [ipc EXCEPT ![t] = "release"]
  /\ UNCHANGED <<iLive, iRc, iAlive, iDeletes, iSlot, iFreed>>

\* swap(IntrPtr& other): std::swap(mData, other.mData)
ISwap(t, x, y) ==
  /\ ipc[t] = "idle"
  /\ x[1] = t /\ y[1] = t
  /\ iLive[x] /\ iLive[y]
  /\ iData' = [iData EXCEPT ![x] = iData[y], ![y] = iData[x]]
  /\ UNCHANGED <<iLive, iRc, iAlive, iDeletes, ipc, iSlot, iVal, iFreed>>

\* ~IntrPtr() { release(); }: the object's lifetime ends, release() follows
IDtor(t, x) ==
  /\ ipc[t] = "idle"
  /\ x[1] = t
  /\ iLive[x]
  /\ iLive' = [iLive EXCEPT ![x] = FALSE]
  /\ iVal' = [iVal EXCEPT ![t] = iData[x]]
  /\ ipc' = [ipc EXCEPT ![t] = "release"]
  /\ UNCHANGED <<iData, iRc, iAlive, iDeletes, iSlot, iFreed>>

\* release(): mData != nullptr && mRefCount.fetch_sub(1) == 1
IRelease(t) ==
  /\ ipc[t] = "release"
  /\ IF iVal[t] = NULL
       THEN /\ ipc' = [ipc EXCEPT ![t] = "idle"]
            /\ UNCHANGED <<iRc, iVal, iFreed>>
       ELSE /\ iRc' = [iRc EXCEPT ![iVal[t]] = @ - 1]
            /\ iFreed' = (iFreed \/ ~iAlive[iVal[t]])
            /\ IF releasesLast(iRc[iVal[t]])
                 THEN /\ ipc' = [ipc EXCEPT ![t] = "delete"]
                      /\ UNCHANGED iVal
                 ELSE /\ ipc' = [ipc EXCEPT ![t] = "idle"]
                      /\ iVal' = [iVal EXCEPT ![t] = NULL]
  /\ UNCHANGED <<iData, iLive, iAlive, iDeletes, iSlot>>

\* release(): ::delete mData, which destroys the managed object
IDelete(t) ==
  /\ ipc[t] = "delete"
  /\ iAlive' = [iAlive EXCEPT ![iVal[t]] = FALSE]
  /\ iDeletes' = [iDeletes EXCEPT ![iVal[t]] = @ + 1]
  /\ iFreed' = (iFreed \/ ~iAlive[iVal[t]])
  /\ iVal' = [iVal EXCEPT ![t] = NULL]
  /\ ipc' = [ipc EXCEPT ![t] = "idle"]
  /\ UNCHANGED <<iData, iLive, iRc, iSlot>>

INext ==
  /\ ~iFreed
  /\ \/ \E t \in IThreads, a \in ISlots, b \in ISlots : ICopyCtor(t, a, b)
     \/ \E t \in IThreads : IAddRef(t)
     \/ \E t \in IThreads, a \in ISlots, b \in ISlots : IMoveCtor(t, a, b)
     \/ \E t \in IThreads, x \in ISlots, y \in ISlots : IMoveAssign(t, x, y)
     \/ \E t \in IThreads, x \in ISlots, y \in ISlots : ICopyAssign(t, x, y)
     \/ \E t \in IThreads : IAddRefTmp(t)
     \/ \E t \in IThreads, x \in ISlots : IReset(t, x)
     \/ \E t \in IThreads, x \in ISlots, y \in ISlots : ISwap(t, x, y)
     \/ \E t \in IThreads, x \in ISlots : IDtor(t, x)
     \/ \E t \in IThreads : IRelease(t)
     \/ \E t \in IThreads : IDelete(t)
  /\ UNCHANGED <<qvars, svars, pvars, evars, fvars, bvars>>

----------------------------------------------------------------------------
(* Specifications *)

Init ==
  /\ QueueInit /\ StackInit /\ PoolInit /\ ElasticInit /\ FreeListInit
  /\ BoundedInit /\ IntrInit

SpecStack == Init /\ [][SNext]_vars

\* the steps of producer t inside its pushFront calls
ProducerStep(t) == SLoad(t) \/ SLink(t) \/ SCas(t)

\* every producer thread keeps taking steps until its loop is over; popAll
\* need not be called
FairStack ==
  /\ SpecStack
  /\ \A t \in Producers : WF_vars(ProducerStep(t))

SpecPool == Init /\ [][PNext]_vars

\* every thread that can take a step eventually takes one; a spurious wake-up
\* need never happen
FairPool ==
  /\ SpecPool
  /\ \A w \in Workers : WF_vars(WorkerStep(w))
  /\ WF_vars(CallerStep)


SpecElastic == Init /\ [][ENext]_vars

\* every worker thread that can take a step eventually takes one, a wait
\* that no notify ends runs into its timeout, and an enqueue that holds the
\* lock completes; the caller need not call enqueue again, and a spurious
\* return of wait_for need never happen
FairElastic ==
  /\ SpecElastic
  /\ \A s \in ESlots : WF_vars(EWorkerStep(s))
  /\ WF_vars(EEnqBody)

\* one run of either pool's program: the two pools are separate programs,
\* each with its own main
PoolsNext ==
  \/ ElasticInit /\ PNext
  \/ PoolInit /\ ENext

SpecPools == Init /\ [][PoolsNext]_vars

\* either pool's program with tasks that call enqueue on their own pool
NestedNext ==
  \/ ElasticInit /\ (PNext \/ \E w \in Workers : NestedStep(w))
  \/ PoolInit /\ (ENext \/ \E s \in ESlots : ENestedStep(s))

SpecNested == Init /\ [][NestedNext]_vars

QNext ==
  \/ \E x \in QNames, item \in Nodes : QPushFront(x, item)
  \/ \E x \in QNames, item \in Nodes : QPushBack(x, item)
  \/ \E x \in QNames : QPopFront(x)
  \/ \E x \in QNames, y \in QNames, n \in 0..(MaxNodes + 1) : QPopFrontN(x, y, n)
  \/ \E x \in QNames, y \in QNames : QAppend(x, y)
  \/ \E x \in QNames, y \in QNames : QPreappend(x, y)
  \/ \E y \in QNames, c \in Chains(held) : QFrom(y, c)

SpecQueue == Init /\ [][QNext]_vars

SpecFreeList == Init /\ [][FNext]_vars

SpecBounded == Init /\ [][BNext]_vars

SpecIntr == Init /\ [][INext]_vars

----------------------------------------------------------------------------
(* FIFO harness: pushBack and popFront() only, on queue A *)

\* queue.pushBack(item)
FifoPushBack(item) ==
  /\ Len(pushed) < MaxPush /\ item \in held
  /\ LET r == pushBack(q["A"], next, item)
     IN  /\ q' = [q EXCEPT !["A"] = r.q]
         /\ next' = r.next
         /\ last' = [op |-> "pushBack", x |-> "A", y |-> "A", n |-> 0,
                     preX |-> drain(q["A"], next), preY |-> <<>>, ret |-> item]
  /\ held' = held \ {item}
  /\ pushed' = Append(pushed, item)
  /\ UNCHANGED <<fault, popped, svars, pvars, evars, fvars, bvars, ivars>>

\* item = queue.popFront()
FifoPopFront ==
  /\ LET r == popFront(q["A"], next)
     IN  /\ q' = [q EXCEPT !["A"] = r.q]
         /\ next' = r.next
         /\ held' = IF r.item = NULL THEN held ELSE held \cup {r.item}
         /\ last' = [op |-> "popFront", x |-> "A", y |-> "A", n |-> 0,
                     preX |-> drain(q["A"], next), preY |-> <<>>, ret |-> r.item]
         /\ popped' = IF r.item = NULL THEN popped ELSE Append(popped, r.item)
  /\ UNCHANGED <<fault, pushed, svars, pvars, evars, fvars, bvars, ivars>>

FifoNext ==
  \/ \E item \in Nodes : FifoPushBack(item)
  \/ FifoPopFront

SpecFifo == Init /\ [][FifoNext]_vars

----------------------------------------------------------------------------
(* Claims about the Sequential Queue *)

\* C4: for any sequence of pushBack and popFront() calls on one queue, the
\* nodes popFront returns are, in order, the nodes pushed (a prefix of the
\* push history), and popFront returns none only when every pushed node has
\* already been returned (the queue is empty), never a node when it is empty.
C4_FifoLaw ==
  /\ Len(popped) <= Len(pushed)
  /\ popped = SubSeq(pushed, 1, Len(popped))
  /\ (last.op = "popFront" /\ last.ret = NULL) => Len(popped) = Len(pushed)

\* a run that pushed MaxPush nodes (some of them twice) and popped three
C4_Witness ==
  /\ Len(pushed) = MaxPush /\ Len(popped) = 3
  /\ last.op = "popFront" /\ last.ret # NULL


\* C5: y = x.popFront(k) on a queue of length L: if k <= L, y holds the first
\* k nodes in order and x keeps the other L-k in order; if k > L, y holds all
\* L nodes in order and x is empty.
C5_PopFrontNSplit ==
  last.op = "popFrontN" =>
    LET L == Len(last.preX)
        k == last.n
    IN  IF k <= L
        THEN /\ drain(q[last.y], next) = SubSeq(last.preX, 1, k)
             /\ drain(q[last.x], next) = SubSeq(last.preX, k + 1, L)
        ELSE /\ drain(q[last.y], next) = last.preX
             /\ drain(q[last.x], next) = <<>>

\* C6: every queue has its tail pointer absent iff its head is absent.
C6_TailIffEmpty ==
  \A x \in QNames : (q[x].mTail = NULL) <=> (q[x].mHead = NULL)

\* C7: after x.append(y), y is empty and draining x yields x's nodes in
\* order followed by y's nodes in order.
C7_AppendLaw ==
  last.op = "append" =>
    /\ ~fault
    /\ empty(q[last.y])
    /\ drain(q[last.x], next) = last.preX \o last.preY

\* C8: after x.preappend(y), y is empty and draining x yields y's nodes in
\* order followed by x's nodes in order.
C8_PreappendLaw ==
  last.op = "preappend" =>
    /\ ~fault
    /\ empty(q[last.y])
    /\ drain(q[last.x], next) = last.preY \o last.preX

----------------------------------------------------------------------------
(* Claims about the lock-free stack *)

ProducerOf(item) == (item - 1) \div ItemsPerProducer

\* C3: when every producer has finished its pushFront calls and popAll is
\* then called, the queue it returns holds NumProducers * ItemsPerProducer
\* nodes, each pushed node exactly once.
C3_StackNoLossNoDup ==
  (Len(batches) >= 1 /\ batches[1].afterAll) =>
    /\ Len(batches[1].items) = NumProducers * ItemsPerProducer
    /\ {batches[1].items[k] : k \in 1..Len(batches[1].items)} = Items

\* popAll after all pushes, the producers' nodes interleaved in the result
C3_Witness ==
  /\ Len(batches) >= 1 /\ batches[1].afterAll
  /\ \E i, j, k \in 1..Len(batches[1].items) :
       /\ i < j /\ j < k
       /\ ProducerOf(batches[1].items[i]) = ProducerOf(batches[1].items[k])
       /\ ProducerOf(batches[1].items[i]) # ProducerOf(batches[1].items[j])

----------------------------------------------------------------------------
(* Claims about the fixed pool *)

AllExited == \A w \in Workers : wpc[w] = "exited"

\* C1: when every enqueue began before any stop request, each enqueued
\* task's run is invoked, exactly once, by the time the destructor returns,
\* so the counter equals the number of tasks enqueued; and the destructor,
\* once begun, returns, whether or not requestStop was called before it.
C1_EndToEnd ==
  /\ []((cpc = "done" /\ lateEnq = {}) =>
          /\ \A t \in 1..enq : ran[t] = 1
          /\ cnt = enq)
  /\ ((cpc = "stop" /\ cWhy = "dtor") ~> (cpc = "done"))

\* the destructor returned after all NumTasks tasks ran, with no explicit
\* requestStop before it
C1_Witness ==
  /\ cpc = "done" /\ lateEnq = {} /\ enq = NumTasks /\ cnt = NumTasks
  /\ atStop # {}


\* C2: when no enqueue begins once requestStop has begun, a worker that has
\* terminated saw its stop flag set and left its own queue empty, and once
\* every worker has terminated every enqueued task has been run: the tasks
\* linked when requestStop began were not discarded.
C2_StopKeepsQueuedWork ==
  lateEnq = {} =>
    /\ \A w \in Workers :
         wpc[w] = "exited" => (pStop[w] /\ empty(pQ[w]))
    /\ AllExited => \A t \in 1..enq : ran[t] >= 1

\* requestStop began with tasks linked, and the workers have all terminated
\* before the destructor began
C2_Witness ==
  /\ AllExited /\ lateEnq = {} /\ cWhy = "explicit" /\ cpc = "idle"
  /\ Cardinality(atStop) = NumTasks
  /\ \A t \in Tasks : ran[t] = 1


\* the condition of the growth check on a pending count, an idle count and a
\* live count
GrowthDue(pending, idle, live) == pending > idle * 5 /\ live < ThreadLimit

\* C9: when enqueue or a worker's loop iteration runs the growth check with
\* pending > idle * 5 and live < max, at least one worker is spawned; the
\* check spawns as long as the condition holds and no longer, so the
\* condition is false when it returns; the live and the idle count each grow
\* by one per spawned worker, and as many threads start as were counted. The
\* pending count is the pool's counter; the same holds of the number of
\* tasks in the queue.
C9_GrowthCheck ==
  eGrow.by # Nobody =>
    /\ GrowthDue(eGrow.size, eGrow.idle, eGrow.live) => eGrow.spawned >= 1
    /\ GrowthDue(eGrow.qlen, eGrow.idle, eGrow.live) => eGrow.spawned >= 1
    /\ \A k \in 0..(eGrow.spawned - 1) :
         GrowthDue(eGrow.size, eGrow.idle + k, eGrow.live + k)
    /\ ~GrowthDue(eGrow.size, eGrow.idleAfter, eGrow.liveAfter)
    /\ eGrow.idleAfter = eGrow.idle + eGrow.spawned
    /\ eGrow.liveAfter = eGrow.live + eGrow.spawned
    /\ eGrow.started = eGrow.spawned

\* a growth check that found the condition true twice in a row
C9_Witness ==
  /\ eGrow.by # Nobody
  /\ GrowthDue(eGrow.size, eGrow.idle, eGrow.live)
  /\ eGrow.spawned >= 2

\* a worker's loop iteration, not enqueue, spawned a worker
C9_WitnessWorker ==
  /\ eGrow.by \in ESlots
  /\ eGrow.spawned >= 1

\* no worker thread is alive and both counters are 0
PoolGone ==
  /\ mThreadCount = 0
  /\ mIdleCount = 0
  /\ \A s \in ESlots : epc[s] = "none"

\* C10: once the caller enqueues no more, the queue is drained, every worker
\* times out of its wait with the queue empty and terminates, and from then
\* on the live-worker count and the idle count are 0.
C10_Shrink == <>[](PoolGone /\ empty(eQ))

\* every task was enqueued and run, and the workers that ran them are gone
C10_Witness ==
  /\ eEnq = NumETasks
  /\ \A t \in ETasks : eRan[t] = 1
  /\ mQueueSize = NumETasks
  /\ PoolGone
  /\ empty(eQ)

\* C11: in every reachable state of the elastic pool the live-worker count,
\* and the number of worker threads that exist, is at most the configured
\* maximum.
C11_LiveWithinLimit ==
  /\ mThreadCount <= ThreadLimit
  /\ eGrow.liveAfter <= ThreadLimit
  /\ Cardinality({s \in ESlots : epc[s] # "none"}) <= mThreadCount

\* the pool is at its maximum with work still pending
C11_Witness ==
  /\ mThreadCount = ThreadLimit
  /\ \A s \in ESlots : epc[s] # "none"
  /\ ~empty(eQ)
  /\ mQueueSize > mIdleCount * 5

----------------------------------------------------------------------------
(* Further claims about the fixed pool *)

\* a call of enqueue has begun and not returned
EnqInFlight == cpc \in {"enqTry", "enqTryLocked", "enqPush", "enqPushLocked"}

\* the queue the running call of enqueue pushes into when it holds a lock
EnqTarget == IF cpc = "enqTryLocked" THEN (cStart + cI) % NumWorkers ELSE cStart

\* C12: the n-th call of enqueue takes start = (n - 1) mod worker count from
\* the counter, which it increments; it tries the workers start, start + 1,
\* ... in cyclic order, each once, and pushes into the first whose lock
\* attempt succeeds; after worker-count failed attempts it takes the lock of
\* the start worker and pushes there; when it returns the task is the last
\* of that one queue and in no other, and no other queue has changed; a
\* task whose enqueue returned is in exactly one queue, or held by one
\* worker, or has run.
C12_EnqueueNeverDrops ==
  /\ [](EnqInFlight =>
          /\ mNextThread = enq
          /\ cStart = (enq - 1) % NumWorkers)
  /\ [](cpc \in {"enqTry", "enqTryLocked"} => cI < NumWorkers)
  /\ [](cpc = "enqTryLocked" => pMt[(cStart + cI) % NumWorkers] = Caller)
  /\ [](cpc \in {"enqPush", "enqPushLocked"} => cI = NumWorkers)
  /\ [](cpc = "enqPushLocked" => pMt[cStart] = Caller)
  /\ [](\A t \in 1..enq :
          (t = enq /\ EnqInFlight)
          \/ /\ Cardinality(PlacesOf(t)) <= 1
             /\ Cardinality(PlacesOf(t))
                  + Cardinality({w \in Workers : wTask[w] = t}) + ran[t] = 1)
  /\ [][(cpc = "enqTry" /\ <<cpc, cI>>' # <<cpc, cI>>) =>
          \/ /\ cpc' = "enqTryLocked"
             /\ cI' = cI
             /\ pMt[(cStart + cI) % NumWorkers] = Nobody
          \/ /\ cI' = cI + 1
             /\ cpc' = IF cI' = NumWorkers THEN "enqPush" ELSE "enqTry"
             /\ pQ' = pQ]_vars
  /\ [][(EnqInFlight /\ cpc' = "idle") =>
          /\ cpc \in {"enqTryLocked", "enqPushLocked"}
          /\ \E idx \in Workers, t \in Tasks :
               /\ idx = EnqTarget
               /\ t = enq
               /\ QueueOf(idx)' = Append(QueueOf(idx), t)
               /\ \A w \in Workers \ {idx} : QueueOf(w)' = QueueOf(w)
               /\ PlacesOf(t)' = {<<idx, Len(QueueOf(idx)) + 1>>}]_vars

\* every lock attempt of the second call failed and the call holds the lock
\* of its start worker, worker 1, for the blocking push
C12_Witness ==
  /\ cpc = "enqPushLocked"
  /\ enq = 2
  /\ cStart = 1
  /\ PlacesOf(1) # {}

\* C13: when the constructor rethrows because creating a worker thread
\* failed, every state has been sent the stop request and every worker that
\* was started has terminated: none is running, waiting or holding a lock.
C13_CtorFailureStopsAndJoins ==
  cpc = "thrown" =>
    /\ cWhy = "ctor"
    /\ \A w \in Workers : pStop[w]
    /\ \A w \in Workers : wpc[w] \in {"unborn", "exited"}
    /\ \A w \in Workers : pMt[w] = Nobody
    /\ nThreads = 0

\* creating the second worker failed: the first had started and has
\* terminated, the second never existed
C13_Witness ==
  /\ cpc = "thrown"
  /\ wpc[0] = "exited"
  /\ wpc[1] = "unborn"

----------------------------------------------------------------------------
(* Further claims about the Sequential Queue and the lock-free stack *)

Reverse(s) == [k \in 1..Len(s) |-> s[Len(s) + 1 - k]]

\* C14 as stated: the queue Queue::from builds iterates front to back in the
\* order obtained by following the chain's links from its first node.
C14_FromKeepsTraversalOrder ==
  last.op = "from" => drain(q[last.x], next) = last.preX

\* C14, amended: Queue::from builds a queue holding exactly the nodes of the
\* chain, with the links reversed: it iterates front to back in the reverse
\* of the chain's traversal order, its tail is the chain's first node, and
\* it is empty with no tail when the chain is empty.
C14_FromReversesChain ==
  last.op = "from" =>
    /\ drain(q[last.x], next) = Reverse(last.preX)
    /\ q[last.x].mTail = IF last.preX = <<>> THEN NULL ELSE last.preX[1]
    /\ (q[last.x].mTail = NULL) <=> empty(q[last.x])
    /\ q[last.x].mTail # NULL => next[q[last.x].mTail] = NULL

\* Queue::from was applied to a chain of three nodes
C14_Witness ==
  /\ last.op = "from"
  /\ Len(last.preX) = 3
  /\ Len(drain(q[last.x], next)) = 3

\* C15: in the queue any popAll returns, whatever the interleaving of the
\* producers and of popAll with them, two nodes pushed by the same thread
\* appear in that thread's push order, the earlier push nearer the front.
C15_PerProducerOrder ==
  \A b \in 1..Len(batches) :
    \A i, j \in 1..Len(batches[b].items) :
      (/\ i < j
       /\ ProducerOf(batches[b].items[i]) = ProducerOf(batches[b].items[j]))
        => batches[b].items[i] < batches[b].items[j]

\* a popAll that ran while producers were still pushing returned both nodes
\* of one producer with a node of the other between them
C15_Witness ==
  /\ Len(batches) >= 1 /\ ~batches[1].afterAll
  /\ \E i, j, k \in 1..Len(batches[1].items) :
       /\ i < j /\ j < k
       /\ ProducerOf(batches[1].items[i]) = ProducerOf(batches[1].items[k])
       /\ ProducerOf(batches[1].items[i]) # ProducerOf(batches[1].items[j])

C17_SingleOwnership ==
  \A t \in Tasks :
    /\ Cardinality(PlacesOf(t)) <= 1
    /\ Cardinality({w \in Workers : wTask[w] = t}) <= 1
    /\ ran[t] <= 1
    /\ Cardinality(PlacesOf(t))
         + Cardinality({w \in Workers : wTask[w] = t}) + ran[t] <= 1

\* worker 0 holds a task it stole from worker 1's queue while worker 1 holds
\* one it took from worker 0's queue
C17_Witness ==
  /\ wpc[0] = "run" /\ wIdx[0] = 1
  /\ wpc[1] = "run" /\ wIdx[1] = 0
  /\ wTask[0] # wTask[1]

----------------------------------------------------------------------------
(* Claims about both pools *)

\* the tasks of a sequence
SeqSet(sq) == {sq[k] : k \in 1..Len(sq)}

\* the n-th call of enqueue passes task n: a queue holds its tasks in the
\* order they were pushed exactly when it holds them in increasing order,
\* and it gives them up in that order when each removal takes the least
Increasing(sq) == \A i, j \in 1..Len(sq) : i < j => sq[i] < sq[j]

\* C18: tasks leave a queue in the order they were pushed into it. In the
\* fixed pool every worker's queue changes only by a push of the task being
\* enqueued at its back or by the removal of its front task, which is the
\* one pushed earliest of those it holds, whichever worker removes it; in
\* the elastic pool the shared queue changes the same way, and the k-th
\* task dequeued is the k-th task enqueued.
C18_PerQueueFifo ==
  /\ [](\A w \in Workers : Increasing(QueueOf(w)))
  /\ [](Increasing(EQueue))
  /\ [][\A w \in Workers :
          QueueOf(w)' # QueueOf(w) =>
            \/ /\ QueueOf(w)' = Append(QueueOf(w), enq)
               /\ \A t \in SeqSet(QueueOf(w)) : t < enq
            \/ /\ QueueOf(w) # <<>>
               /\ QueueOf(w)' = Tail(QueueOf(w))
               /\ \A t \in SeqSet(QueueOf(w)) : Head(QueueOf(w)) <= t
               /\ \E v \in Workers :
                    wTask[v] = NULL /\ wTask'[v] = Head(QueueOf(w))]_vars
  /\ [][EQueue' # EQueue =>
          \/ /\ EQueue' = Append(EQueue, eEnq + 1)
             /\ eEnq' = eEnq + 1
          \/ /\ EQueue # <<>>
             /\ EQueue' = Tail(EQueue)
             /\ Head(EQueue) = eEnq - Len(EQueue) + 1
             /\ \E sl \in ESlots :
                  eTask[sl] = NULL /\ eTask'[sl] = Head(EQueue)]_vars

\* fixed pool: a worker stole the first task of a sibling's queue that held
\* both tasks, and the second is still there
C18_Witness ==
  \E v, w \in Workers :
    /\ v # w
    /\ wpc[v] = "run" /\ wIdx[v] = w
    /\ wTask[v] = 1
    /\ QueueOf(w) = <<2>>

\* elastic pool: the third task has been dequeued with three more waiting
C18_WitnessElastic ==
  /\ \E sl \in ESlots : eTask[sl] = 3
  /\ EQueue = <<4, 5, 6>>

----------------------------------------------------------------------------
(* Who changes a worker's state in the fixed pool *)

\* C19 as stated: no thread other than worker i removes a task from worker
\* i's queue: the task a worker runs was taken from its own queue.
C19_OnlyOwnerRemoves ==
  \A w \in Workers : wpc[w] = "run" => wIdx[w] = w

\* C19, amended: worker i's state changes only under its lock: an enqueuing
\* thread pushes the task being enqueued at the back of its queue; a task
\* is removed from its queue only by a worker thread, which takes the front
\* task: worker i itself, by tryPop or the blocking pop, or a sibling that
\* steals it by tryPop; its stop flag is set by the thread that calls
\* requestStop.
C19_OwnerOrStealingSibling ==
  /\ [][\A i \in Workers :
          QueueOf(i)' # QueueOf(i) =>
            \/ /\ pMt[i] = Caller
               /\ cpc \in {"enqTryLocked", "enqPushLocked"}
               /\ QueueOf(i)' = Append(QueueOf(i), enq)
            \/ \E v \in Workers :
                 /\ pMt[i] = v
                 /\ \/ wpc[v] = "scanLocked" /\ wIdx[v] = i
                    \/ wpc[v] = "popLocked" /\ v = i
                 /\ QueueOf(i) # <<>>
                 /\ QueueOf(i)' = Tail(QueueOf(i))
                 /\ wTask'[v] = Head(QueueOf(i))
                 /\ wpc'[v] = "run"]_vars
  /\ [][\A i \in Workers :
          pStop'[i] # pStop[i] =>
            pMt[i] = Caller /\ cpc = "stopLocked" /\ pStop'[i]]_vars

\* worker 1 runs a task it stole from worker 0's queue while worker 0 is
\* blocked in its wait
C19_Witness ==
  /\ wpc[1] = "run" /\ wIdx[1] = 0
  /\ wpc[0] = "wait"

----------------------------------------------------------------------------
(* Claims about the FreeList *)

\* C20: over every sequence of Allocate and Deallocate calls (Deallocate only
\* on contained indices), the index Allocate(v) returned is contained and Get
\* of it yields v; the index Deallocate was called on is not contained; Size()
\* is the number of indices allocated and not yet deallocated; and an index
\* is contained, with the value it was allocated for, exactly while it is
\* allocated and not deallocated.
C20_IndexLifecycle ==
  /\ fLast.op = "Allocate" =>
       /\ Contains(len_, look_up_, fLast.index)
       /\ Get(data_, look_up_, fLast.index) = fLast.val
  /\ fLast.op = "Deallocate" => ~Contains(len_, look_up_, fLast.index)
  /\ Size(len_) = Cardinality(DOMAIN fLive)
  /\ \A i \in FIndices :
       /\ Contains(len_, look_up_, i) <=> i \in DOMAIN fLive
       /\ i \in DOMAIN fLive => Get(data_, look_up_, i) = fLive[i]

\* Allocate has just reused the Item of an index deallocated earlier, which
\* a Deallocate had swapped away from its first position, while other indices
\* are live
C20_Witness ==
  /\ fLast.op = "Allocate"
  /\ Len(data_) = MaxItems
  /\ At(look_up_, fLast.index) # fLast.index
  /\ Cardinality(DOMAIN fLive) >= 2

\* C21: the index an Allocate call returns is not live when the call is made,
\* and across every Allocate call, and every Deallocate call on another index,
\* each live index j stays contained and Get(j) still yields the value j was
\* allocated with.
C21_StableIndices ==
  [][/\ fLast'.op = "Allocate" /\ len_' # len_ =>
          fLast'.index \notin DOMAIN fLive
     /\ \A j \in DOMAIN fLive :
          (len_' # len_ /\ ~(fLast'.op = "Deallocate" /\ fLast'.index = j)) =>
             /\ Get(data_, look_up_, j) = fLive[j]
             /\ Contains(len_', look_up_', j)
             /\ Get(data_', look_up_', j) = fLive[j]]_vars

\* an index whose Item the compaction moved is live, with its value, after a
\* later Allocate reused an Item for another index and another value
C21_Witness ==
  /\ fLast.op = "Allocate"
  /\ \E j \in DOMAIN fLive :
       /\ j # fLast.index
       /\ At(look_up_, j) # j
       /\ fLive[j] # fLast.val
       /\ Get(data_, look_up_, j) = fLive[j]
  /\ At(look_up_, fLast.index) = Len(data_) - 1
  /\ fLast.index # Len(data_) - 1

-----------------------------------------------------------------------------
(* Claims about the fixed pool's worker loop *)

\* the queues worker w tries in one iteration: its own, then i+1, i+2, ...
\* modulo the worker count
ScanOrder(w) == [k \in 1..NumWorkers |-> (w + k - 1) % NumWorkers]

InBlockingPop(w) == wpc[w] \in {"pop", "popLocked", "wait"}

Stranded(t) ==
  \E w \in Workers : wpc[w] = "exited" /\ t \in SeqSet(QueueOf(w))

\* C23: a task whose enqueue began after requestStop had begun can be pushed
\* into the queue of a worker that has already returned; once every worker
\* has returned such a task stays linked and is never run, and when the
\* destructor has returned the tasks never run are exactly tasks of this
\* kind, still linked in an exited worker's queue.
C23_LateTaskStranded ==
  /\ [](cpc = "done" =>
          \A t \in 1..enq :
            ran[t] = 0 => (t \in lateEnq /\ Stranded(t)))
  /\ [][\A t \in Tasks :
          (AllExited /\ Stranded(t)) =>
             (AllExited' /\ Stranded(t)' /\ ran'[t] = 0)]_vars

\* the destructor has returned while a task enqueued after requestStop is
\* still linked, never run, in the queue of a worker that left that queue
\* empty when it returned
C23_Witness ==
  /\ cpc = "done"
  /\ \E t \in lateEnq : Stranded(t) /\ ran[t] = 0

-----------------------------------------------------------------------------
(* Claims about the elastic pool's workers *)

\* C24: a worker of the elastic pool terminates only in a step it takes with
\* the lock held, after its timed wait returned by timeout, with the shared
\* queue empty, and the step takes exactly one off the idle count and one
\* off the live count; after a wait that returned for a notification, or by
\* timeout with the queue non-empty, it goes round the loop again: it takes
\* the front task if there is one, else it waits again.
C24_ExitOnlyOnIdleTimeout ==
  [][\A s \in ESlots :
       /\ (epc[s] # "none" /\ epc'[s] = "none") =>
            /\ epc[s] = "afterWait"
            /\ eMt = s
            /\ eR[s] = "timeout"
            /\ EQueue = << >>
            /\ mIdleCount' = mIdleCount - 1
            /\ mThreadCount' = mThreadCount - 1
       /\ (epc[s] = "afterWait" /\ epc'[s] # "afterWait"
           /\ (eR[s] # "timeout" \/ EQueue # << >>)) =>
            IF EQueue # << >>
            THEN epc'[s] = "run" /\ eTask'[s] = Head(EQueue)
            ELSE epc'[s] = "wait"]_vars

\* a worker holds the lock after its wait timed out and finds a task queued,
\* after the worker of a lower slot has terminated
C24_Witness ==
  \E s \in ESlots, x \in ESlots :
    /\ x < s
    /\ epc[x] = "none"
    /\ epc[s] = "afterWait"
    /\ eMt = s
    /\ eR[s] = "timeout"
    /\ EQueue # << >>
    /\ mThreadCount = 1

\* C25: the pending-task counter the growth check reads equals the number
\* of tasks linked in the shared queue.
C25_PendingEqualsQueued == mQueueSize = Len(EQueue)

\* C26: under fair scheduling every task passed to enqueue is eventually run
\* (the caller enqueues finitely many tasks, so from some point on every task
\* enqueued has been run), and no task is run more than once or before it
\* was enqueued.
C26_EveryTaskRuns ==
  /\ <>[](\A t \in 1..eEnq : eRan[t] = 1)
  /\ [](\A t \in ETasks : eRan[t] <= 1 /\ (eRan[t] = 1 => t <= eEnq))

\* the only live worker holds the lock after its wait timed out and finds the
\* task that enqueue pushed, without spawning, after the timeout (a waiting
\* worker would have been notified); every earlier task has run
C26_Witness ==
  \E s \in ESlots :
    /\ epc[s] = "afterWait"
    /\ eMt = s
    /\ eR[s] = "timeout"
    /\ mThreadCount = 1
    /\ eEnq >= 2
    /\ EQueue = <<eEnq>>
    /\ eGrow.by = ECaller /\ eGrow.spawned = 0 /\ eGrow.idle = 1
    /\ \A t \in 1..(eEnq - 1) : eRan[t] = 1

\* the workers inside wait_for (blocked, or taking the lock again before it
\* returns) and the threads spawned that have not yet got the lock
IdleWorkers == {s \in ESlots : epc[s] \in {"start", "wait", "woken"}}

\* the worker, if any, that holds the lock and has not yet run the decrement
\* that follows its acquisition (line 35, or line 46 when it leaves)
AboutToLeaveIdle == {s \in ESlots : eMt = s /\ epc[s] \in {"top", "afterWait"}}

\* C27: in every reachable state 0 <= idle <= live, and the idle count is the
\* number of workers blocked in the timed wait or spawned and not yet past
\* their first acquisition of the lock; while a worker that has just got the
\* lock has not yet run its decrement, the count still includes that worker.
C27_CounterConsistency ==
  /\ 0 <= mIdleCount
  /\ mIdleCount <= mThreadCount
  /\ mIdleCount = Cardinality(IdleWorkers) + Cardinality(AboutToLeaveIdle)
  /\ eMt \notin ESlots => mIdleCount = Cardinality(IdleWorkers)
  /\ mThreadCount = Cardinality({s \in ESlots : epc[s] # "none"})

\* both workers are idle: one blocked in the timed wait, the other spawned
\* and not yet holding the lock
C27_Witness ==
  /\ mIdleCount = 2
  /\ mThreadCount = 2
  /\ eMt = Nobody
  /\ \E s \in ESlots, x \in ESlots : epc[s] = "start" /\ epc[x] = "wait"

-----------------------------------------------------------------------------
(* Claims about wake-ups in the fixed pool *)

\* worker w sits in mCv.wait although its queue holds a task or its stop flag
\* is set
WaitingWithWork(w) ==
  wpc[w] = "wait" /\ (~empty(pQ[w]) \/ pStop[w])

\* C28: a worker blocked on its condition variable while its own queue is
\* non-empty or its stop flag is set always has a notification pending, and
\* under fair scheduling it leaves the wait.
C28_NoLostWakeup ==
  /\ [](\A w \in Workers : WaitingWithWork(w) => pNotified[w])
  /\ \A w \in Workers : WaitingWithWork(w) ~> (wpc[w] # "wait")

\* a worker is still in the wait, notified by the push that found its queue
\* empty, while a second push, which did not notify, has linked another task
C28_Witness ==
  \E w \in Workers :
    /\ wpc[w] = "wait"
    /\ pNotified[w]
    /\ Len(QueueOf(w)) = 2
    /\ ~pStop[w]

-----------------------------------------------------------------------------
(* Claims about tasks that enqueue on the pool that runs them *)

\* the mutexes of the fixed pool that thread x holds
HeldBy(x) == {v \in Workers : pMt[v] = x}

\* the step with which the holder x of a fixed pool mutex releases it
ReleaseStep(x) ==
  IF x = Caller
  THEN CEnqTryBody \/ CEnqPushBody \/ CStopBody
  ELSE \/ WTryPopBody(x) \/ WPopBody(x)
       \/ NEnqTryBody(x) \/ NEnqPushBody(x)

\* the step with which the holder x of the elastic pool's mutex releases it
EReleaseStep(x) ==
  IF x = ECaller
  THEN EEnqBody
  ELSE EExit(x) \/ ETake(x) \/ EWait(x) \/ ENEnqBody(x)

\* task c is linked once in one queue, or held by one worker, or has run
AcceptedOnce(c) ==
  Cardinality(PlacesOf(c)) + Cardinality({v \in Workers : wTask[v] = c})
    + ran[c] = 1

EAcceptedOnce(c) ==
  Cardinality({k \in 1..Len(EQueue) : EQueue[k] = c})
    + Cardinality({x \in ESlots : eTask[x] = c}) + eRan[c] = 1

\* C29: a worker of either pool that is running a task holds no pool lock
\* except one that the task's own enqueue call has taken; an enqueue called
\* by a running task that waits for a lock waits for another thread, which
\* holds it inside a critical section whose next step releases it; and once
\* that enqueue has returned the task it was passed is linked in one queue,
\* or has been taken from it.
C29_RunHoldsNoLock ==
  /\ \A w \in Workers :
       /\ wpc[w] = "run" =>
            HeldBy(w) = IF npc[w] = "tryLocked"
                          THEN {enqueueIdx(nStart[w], nI[w], nThreads)}
                        ELSE IF npc[w] = "pushLocked" THEN {nStart[w]}
                        ELSE {}
       /\ (npc[w] = "push" /\ pMt[nStart[w]] # Nobody) =>
            /\ pMt[nStart[w]] # w
            /\ ENABLED ReleaseStep(pMt[nStart[w]])
       /\ (npc[w] = "none" /\ nTask[w] # NULL) => AcceptedOnce(nTask[w])
  /\ \A s \in ESlots :
       /\ epc[s] = "run" => (eMt = s <=> enpc[s] = "enqLocked")
       /\ (enpc[s] = "enq" /\ eMt # Nobody) =>
            /\ eMt # s
            /\ ENABLED EReleaseStep(eMt)
       /\ (enpc[s] = "none" /\ enTask[s] # NULL) => EAcceptedOnce(enTask[s])

\* a worker of the fixed pool is still running the task whose enqueue call
\* has returned after pushing the new task into that worker's own queue
C29_Witness ==
  \E w \in Workers :
    /\ wpc[w] = "run"
    /\ npc[w] = "none"
    /\ nTask[w] # NULL
    /\ nTask[w] \in SeqSet(QueueOf(w))

\* a worker of the elastic pool is still running the task whose enqueue call
\* has returned, with the new task linked in the shared queue
C29_WitnessElastic ==
  \E s \in ESlots :
    /\ epc[s] = "run"
    /\ enpc[s] = "none"
    /\ enTask[s] # NULL
    /\ enTask[s] \in SeqSet(EQueue)

\* a running task's enqueue waits for the mutex of its start queue, which
\* another thread holds
C29_WitnessBlocked ==
  \E w \in Workers : npc[w] = "push" /\ pMt[nStart[w]] \notin {Nobody, w}

-----------------------------------------------------------------------------
(* Claims about popAll running while producers push *)

\* the nodes linked from h, following nx, at most fuel of them
RECURSIVE Walk(_, _, _)
Walk(h, nx, fuel) ==
  IF h = NULL \/ fuel = 0 THEN << >>
  ELSE <<h>> \o Walk(nx[h], nx, fuel - 1)

\* the nodes in the stack, top first
InStack == Walk(sHead, sNext, NumProducers * ItemsPerProducer + 1)

\* the nodes whose pushFront call has returned
Pushed ==
  UNION {{ItemOf(t, i) : i \in 0..(sIdx[t] - 1)} : t \in Producers}

RECURSIVE Concat(_)
Concat(seqs) == IF seqs = << >> THEN << >> ELSE Head(seqs) \o Concat(Tail(seqs))

\* the nodes of all drained queues, batch after batch, then those in the stack
Everywhere == Concat([b \in 1..Len(batches) |-> batches[b].items]) \o InStack

\* C30: with popAll called repeatedly by one consumer while producers push,
\* every node whose pushFront has returned is in exactly one drained queue or
\* in the stack, no node is in two places, and every drained queue is a chain
\* of distinct nodes, linked front to back, whose last node is the queue's
\* tail and has a null link.
C30_DrainWhilePushing ==
  /\ SeqSet(Everywhere) = Pushed
  /\ Len(Everywhere) = Cardinality(Pushed)
  /\ \A b \in 1..Len(batches) :
       LET it == batches[b].items
       IN  /\ \A k \in 1..Len(it) :
                sNext[it[k]] = IF k < Len(it) THEN it[k + 1] ELSE NULL
           /\ batches[b].tail = IF it = << >> THEN NULL ELSE it[Len(it)]

\* two popAll calls that ran while producers were still pushing each
\* returned nodes, and more nodes have been pushed since
C30_Witness ==
  /\ Len(batches) = 2
  /\ batches[1].items # << >> /\ batches[2].items # << >>
  /\ ~batches[2].afterAll
  /\ sHead # NULL
  /\ \E t \in Producers : spc[t] = "cas"

----------------------------------------------------------------------------
(* Claims about the BoundedQueue *)

\* C31: in every reachable state, under every interleaving of Push, TryPush,
\* Pop, TryPop and the stop_token overloads of Push and Pop, stop requested
\* while a caller waits included, content_ holds at most capacity_ items and
\* no Pop has removed an item from an empty content_.
C31_WithinCapacityNonEmptyPop ==
  /\ Len(content_) <= BCapacity
  /\ ~bPopEmpty


\* the IntrPtr values that refer to block b: the live objects, and the
\* temporary a thread holds until its release() has decremented the count
RefersTo(b) ==
  Cardinality({s \in ISlots : iLive[s] /\ iData[s] = b})
    + Cardinality({t \in IThreads : ipc[t] = "release" /\ iVal[t] = b})

Deleting(b) == {t \in IThreads : ipc[t] = "delete" /\ iVal[t] = b}

\* C32: under every interleaving of copy, move, reset, assignment and
\* destruction by threads that each use their own IntrPtr objects, every
\* control block's mRefCount equals the number of live non-null IntrPtr
\* values referring to it, the managed object is deleted at most once and
\* only by the thread whose release took the count to zero, and no deleted
\* block is referred to, read or written.
C32_RefCountMatchesPointers ==
  /\ ~iFreed
  /\ \A b \in IBlocks :
       /\ iRc[b] = RefersTo(b)
       /\ iDeletes[b] <= 1
       /\ iAlive[b] <=> iDeletes[b] = 0
       /\ ~iAlive[b] => RefersTo(b) = 0
       /\ (iAlive[b] /\ iRc[b] = 0) => Cardinality(Deleting(b)) = 1
       /\ iRc[b] > 0 => Deleting(b) = {}
       /\ (RefersTo(b) = 0 /\ \A t \in IThreads : ipc[t] = "idle")
            => iDeletes[b] = 1

\* one block was deleted after the last of its pointers was released while
\* another block has gained copies in both threads
C32_Witness ==
  \E b \in IBlocks, c \in IBlocks :
    /\ b # c
    /\ iDeletes[b] = 1 /\ ~iAlive[b]
    /\ iRc[c] > NumIThreads
    /\ \A t \in IThreads : \E s \in ISlots : s[1] = t /\ iLive[s] /\ iData[s] = c

====
